---------------------------- MODULE Spec2Model ----------------------------
(***************************************************************************)
(* Orchestration core of the market-close briefing pipeline:               *)
(*   - shared/normalization.normalize_script_turns  (Normalizer)           *)
(*   - run_theme_workers / merge_scripts            (fan-out / fan-in)      *)
(*   - debate/graph.py run_round / moderator        (Debate Engine)        *)
(*   - refine_transitions                           (Refiner)              *)
(*   - orchestrator.py graph and main()             (Orchestrator)         *)
(*   - shared tool get_ohlcv                        (price history)        *)
(* The two speakers of the scripts are written "host" and "analyst" here.  *)
(***************************************************************************)
EXTENDS Integers, Sequences, FiniteSets, TLC

VARIABLES
    \* normalize_script_turns
    nz_pc,          \* "input" | "normalized" | "renormalized"
    nz_input,       \* the raw turn list handed to normalize_script_turns
    nz_output,      \* normalize_script_turns(nz_input)
    nz_again,       \* normalize_script_turns(nz_output)
    \* fan-out / fan-in (run_theme_workers, merge_scripts)
    fo_pc,          \* "batch" | "collected" | "merged" | "raised"
    fo_n,           \* number of items submitted (themes / tickers)
    fo_base,        \* base_scripts: the accumulated script before the stage
    fo_raw,         \* per item: Pending, or the outcome of its worker
    fo_order,       \* items in the order their workers completed
    fo_results,     \* theme_scripts: one turn list per item
    fo_scripts,     \* scripts after merge_scripts
    \* debate (one ticker)
    db_pc,          \* "init" | "load_context" | "run_round" | "moderator" | "end"
    db_max_rounds,  \* DEBATE_MAX_ROUNDS / --max-rounds of this run
    db_rounds,      \* transcript: completed rounds, oldest first
    db_current,     \* per expert role: NoJudgment, or its judgment of the round in progress
    db_conclusion,  \* NoConclusion, or the moderator's conclusion
    db_conclusions, \* how many conclusions the moderator has written
    db_consensus_round, \* round at which consensus was declared, 0 if none
    \* refine_transitions
    rf_pc,          \* "merged" | "replied" | "refined"
    rf_scripts,     \* the merged, normalized scripts handed to the Refiner
    rf_edits,       \* the Refiner's reply: its edits
    rf_applied,     \* the edits the apply step overwrote a turn with
    rf_result,      \* scripts after the edits are applied
    rf_attempts,    \* Refiner calls that failed so far
    rf_outcome,     \* "none" | "edits" | "unparsable" | "timeout" | "error" | "raised"
    \* orchestrator.py (one run of the CLI)
    or_pc,          \* "cli" | the graph node to run next | "END" | "saved" | "raised" | "exited"
    or_mode,        \* [kind: "stage" | "agent", stage: 0..3, agent: name | "none"]
    or_user_tickers, \* -t/--tickers
    or_scripts,     \* BriefingState.scripts
    or_chapter,     \* BriefingState.chapter
    or_ran,         \* the agents run so far, with the script length before and after
    or_temp,        \* temp/*.json: per artifact NoFile or the scripts it holds
    or_cache,       \* cache/{date}: "absent" | "present"
    or_cleaned,     \* who removed cache/{date} so far: "node", "finally"
    or_saved,       \* Podcast/{date}/script.json: NoFile or the payload
    or_exit,        \* exit status of the process: -1 while it runs
    or_error,       \* "none", or the exception that ended the run
    \* get_ohlcv (one call)
    oh_pc,          \* "called" | "returned"
    oh_download,    \* what yfinance.download() gave: [row_count, columns_ok]
    oh_response,    \* the tool's response
    \* web player (EpisodePlayer, Playbar)
    pl_rate,        \* playbackRate, in thousandths
    pl_rate_before, \* playbackRate before the last speed control was used
    pl_control,     \* the last speed control used: "none" | "increment" | "decrement" | "reset"
    pl_audio_time,  \* audioRef.current.currentTime, in ms
    pl_current_time, \* currentTime state of EpisodePlayer, in ms
    pl_is_playing,  \* isPlaying
    pl_clicked,     \* the turn clicked last, 0 once the audio moved on
    pl_scripts,     \* episode.scripts: id and time[0] of every turn
    pl_audio_ok,    \* whether the audio file of the episode could be loaded
    pl_audio_paused, \* audioRef.current.paused
    pl_loop,        \* isLooping and audioRef.current.loop
    pl_end_task,    \* the audio got to its end and its task is still queued
    pl_locked,      \* lockedSlideIndex, NoLock for null
    pl_scrolled,    \* the slide the auto-scroll effect scrolled into view last
    pl_slide_clicked, \* the slide clicked in the last step, else NoSlide
    \* expert subgraph, extract (one judgment)
    ex_pc,          \* "final" | "extracted"
    ex_allowed,     \* allowed_sources of the debate
    ex_cited,       \* sources of the expert's final JSON
    ex_sources,     \* sources of the judgment after extract
    \* stage worker (OpeningAgent graph, one run)
    sw_pc,          \* "load_context" | "agent" | "tools" | "extract" | "END" | "raised"
    sw_context,     \* whether market_context.json is in the cache
    sw_calls,       \* LLM calls so far, counted up to MaxWorkerCalls
    sw_tool_calls,  \* tool calls of the last AIMessage
    sw_tool_outputs, \* outputs the last ToolNode run added to the messages
    sw_content,     \* content of the final AIMessage
    sw_result,      \* what extract_script_node returned
    sw_error        \* "none", or the exception that ended the graph

vars_nz == <<nz_pc, nz_input, nz_output, nz_again>>
vars_fo == <<fo_pc, fo_n, fo_base, fo_raw, fo_order, fo_results, fo_scripts>>
vars_db == <<db_pc, db_max_rounds, db_rounds, db_current, db_conclusion,
             db_conclusions, db_consensus_round>>
vars_rf == <<rf_pc, rf_scripts, rf_edits, rf_applied, rf_result, rf_attempts,
             rf_outcome>>
vars_or == <<or_pc, or_mode, or_user_tickers, or_scripts, or_chapter, or_ran,
             or_temp, or_cache, or_cleaned, or_saved, or_exit, or_error>>
vars_oh == <<oh_pc, oh_download, oh_response>>
vars_pl == <<pl_rate, pl_rate_before, pl_control, pl_audio_time,
             pl_current_time, pl_is_playing, pl_clicked, pl_scripts,
             pl_audio_ok, pl_audio_paused, pl_loop, pl_end_task, pl_locked,
             pl_scrolled, pl_slide_clicked>>
vars_ex == <<ex_pc, ex_allowed, ex_cited, ex_sources>>
vars_sw == <<sw_pc, sw_context, sw_calls, sw_tool_calls, sw_tool_outputs,
             sw_content, sw_result, sw_error>>
vars == <<vars_nz, vars_fo, vars_db, vars_rf, vars_or, vars_oh, vars_pl, vars_ex,
          vars_sw>>

\* The variables of every component but one.
vars_but_nz == <<vars_fo, vars_db, vars_rf, vars_or, vars_oh, vars_pl, vars_ex, vars_sw>>
vars_but_fo == <<vars_nz, vars_db, vars_rf, vars_or, vars_oh, vars_pl, vars_ex, vars_sw>>
vars_but_db == <<vars_nz, vars_fo, vars_rf, vars_or, vars_oh, vars_pl, vars_ex, vars_sw>>
vars_but_rf == <<vars_nz, vars_fo, vars_db, vars_or, vars_oh, vars_pl, vars_ex, vars_sw>>
vars_but_or == <<vars_nz, vars_fo, vars_db, vars_rf, vars_oh, vars_pl, vars_ex, vars_sw>>
vars_but_oh == <<vars_nz, vars_fo, vars_db, vars_rf, vars_or, vars_pl, vars_ex, vars_sw>>
vars_but_pl == <<vars_nz, vars_fo, vars_db, vars_rf, vars_or, vars_oh, vars_ex, vars_sw>>
vars_but_ex == <<vars_nz, vars_fo, vars_db, vars_rf, vars_or, vars_oh, vars_pl, vars_sw>>
vars_but_sw == <<vars_nz, vars_fo, vars_db, vars_rf, vars_or, vars_oh, vars_pl, vars_ex>>

\* Sequences over S of length at most n.
SeqUpTo(S, n) == UNION {[1..k -> S] : k \in 0..n}

(***************************************************************************)
(* Part 1. Schema validator / normalizer                                   *)
(***************************************************************************)

\* Bound of the raw inputs: the longest raw turn list.
MaxTurns == 2

ALLOWED_SPEAKERS == {"host", "analyst"}

SourceTypes == {"article", "chart", "event", "sec_filing"}

RequiredFields(type) ==
    CASE type = "article" -> {"pk", "title"}
      [] type = "chart" -> {"ticker", "start_date", "end_date"}
      [] type = "event" -> {"id", "title", "date"}
      [] type = "sec_filing" -> {"ticker", "form", "filed_date", "accession_number"}
      [] OTHER -> {}

\* A source is valid when its type is a known variant and the variant's
\* required fields are all present.
ValidSource(s) ==
    /\ s.type \in SourceTypes
    /\ RequiredFields(s.type) \subseteq s.fields

\* Invalid sources are dropped, the valid ones keep their order.
FilterSources(sources) == SelectSeq(sources, ValidSource)

KeepTurnWithoutSources(t) ==
    /\ t.speaker \in ALLOWED_SPEAKERS
    /\ t.text # ""

\* A turn survives when its speaker is allowed, its text is not empty and at
\* least one of its sources is valid.
KeepTurn(t) ==
    /\ t.speaker \in ALLOWED_SPEAKERS
    /\ t.text # ""
    /\ FilterSources(t.sources) # <<>>

NextIdByInputIndex(i, out) == i - 1

\* The id given to the turn at input position i: the next free id, counted
\* from 0 over the turns kept so far, whatever id the input turn carried.
NextId(i, out) == Len(out)

RECURSIVE normalize_loop(_, _, _)
normalize_loop(raw, i, out) ==
    IF i > Len(raw) THEN out
    ELSE IF KeepTurn(raw[i])
         THEN normalize_loop(raw, i + 1,
                  Append(out, [id |-> NextId(i, out),
                               speaker |-> raw[i].speaker,
                               text |-> raw[i].text,
                               sources |-> FilterSources(raw[i].sources)]))
         ELSE normalize_loop(raw, i + 1, out)

normalize_script_turns(raw) == normalize_loop(raw, 1, <<>>)

\* Raw inputs: what a worker's parsed JSON may hold.
GoodArticle == [type |-> "article", fields |-> {"pk", "title"}]
GoodChart == [type |-> "chart", fields |-> {"ticker", "start_date", "end_date"}]
ArticleNoTitle == [type |-> "article", fields |-> {"pk"}]
UnknownType == [type |-> "web", fields |-> {"url"}]

\* Source lists of a raw turn: none, only invalid ones, valid ones, and
\* valid and invalid ones mixed.
RawSourceLists ==
    { <<>>, <<ArticleNoTitle>>, <<UnknownType>>, <<GoodArticle>>,
      <<ArticleNoTitle, GoodChart>> }

RawIds == {-1, 0, 7}          \* missing, and two arbitrary ids (duplicates arise)
RawSpeakers == {"host", "analyst", "guest"}
RawTexts == {"", "t"}

RawTurns ==
    [id : RawIds, speaker : RawSpeakers, text : RawTexts,
     sources : RawSourceLists]

Normalize ==
    /\ nz_pc = "input"
    /\ nz_output' = normalize_script_turns(nz_input)
    /\ nz_pc' = "normalized"
    /\ UNCHANGED <<nz_input, nz_again>>

\* A later stage normalizes the already normalized list again.
Renormalize ==
    /\ nz_pc = "normalized"
    /\ nz_again' = normalize_script_turns(nz_output)
    /\ nz_pc' = "renormalized"
    /\ UNCHANGED <<nz_input, nz_output>>

NextNormalize ==
    \/ Normalize /\ UNCHANGED vars_but_nz
    \/ Renormalize /\ UNCHANGED vars_but_nz


(***************************************************************************)
(* Part 2. Fan-out / fan-in: run_theme_workers, merge_scripts              *)
(***************************************************************************)

\* Bounds: the most items (themes, tickers) of one fan-out, and the most
\* turns the earlier stages left in base_scripts.
MaxItems == 3
MaxBase == 1

\* The text that marks the turns of item i ("o" marks the base turns).
ItemTexts == <<"a", "b", "c", "d", "e", "f">>
BaseText == "o"

ItemTurn(i, localId, speaker) ==
    [id |-> localId, speaker |-> speaker, text |-> ItemTexts[i],
     sources |-> <<GoodArticle>>]

\* What the worker of item i may return: its own turns, numbered locally
\* from 0 (so every worker uses the same ids).
WorkerOutputs(i) ==
    { <<ItemTurn(i, 0, "host")>>,
      <<ItemTurn(i, 0, "host"), ItemTurn(i, 1, "analyst")>> }

BaseTurn(k) ==
    [id |-> k - 1, speaker |-> IF k % 2 = 1 THEN "host" ELSE "analyst",
     text |-> BaseText, sources |-> <<GoodArticle>>]

\* base_scripts of k turns, as the previous stage normalized them.
BaseScripts(k) == normalize_script_turns([j \in 1..k |-> BaseTurn(j)])

Pending == [status |-> "pending", scripts |-> <<>>]
Failed == [status |-> "failed", scripts |-> <<>>]
Returned(scripts) == [status |-> "ok", scripts |-> scripts]

return_exceptions_off == FALSE

\* worker_graph.batch(..., return_exceptions=True): a worker's exception is
\* returned as that item's value instead of being raised by the batch.
return_exceptions == TRUE

BatchRaises(raw) ==
    /\ ~return_exceptions
    /\ \E i \in DOMAIN raw : raw[i].status = "failed"

\* The result of one item: its worker's scripts, or [] when the worker failed.
ItemResult(outcome) ==
    IF outcome.status = "failed" THEN <<>> ELSE outcome.scripts

CollectInCompletionOrder(raw, order) ==
    [k \in 1..Len(order) |-> ItemResult(raw[order[k]])]

\* theme_scripts = [res["scripts"] for res in theme_results]: one entry per
\* submitted item, at the item's own index.
Collect(raw, order) == [i \in 1..Len(raw) |-> ItemResult(raw[i])]

RECURSIVE Flatten(_)
Flatten(lists) ==
    IF lists = <<>> THEN <<>> ELSE Head(lists) \o Flatten(Tail(lists))

merge_scripts_keeping_ids(base, theme_scripts) == base \o Flatten(theme_scripts)

merge_scripts_items_first(base, theme_scripts) ==
    normalize_script_turns(Flatten(theme_scripts) \o base)

\* merge_scripts: base_scripts, then every item's turns in item order, then
\* ids are given again over the whole list.
merge_scripts(base, theme_scripts) ==
    normalize_script_turns(base \o Flatten(theme_scripts))

WorkerWritesScripts(i) ==
    /\ fo_pc = "batch"
    /\ fo_raw[i].status = "pending"
    /\ \E scripts \in WorkerOutputs(i) :
          /\ fo_raw' = [fo_raw EXCEPT ![i] = Returned(scripts)]
          /\ fo_scripts' = fo_scripts \o scripts
    /\ fo_order' = Append(fo_order, i)
    /\ UNCHANGED <<fo_pc, fo_n, fo_base, fo_results>>

\* The worker of item i ends with its scripts; workers end in any order. The
\* scripts are the output of the worker's own graph: the worker reads
\* base_scripts and writes nothing of the stage's state.
WorkerReturns(i) ==
    /\ fo_pc = "batch"
    /\ fo_raw[i].status = "pending"
    /\ \E scripts \in WorkerOutputs(i) :
          fo_raw' = [fo_raw EXCEPT ![i] = Returned(scripts)]
    /\ fo_order' = Append(fo_order, i)
    /\ UNCHANGED <<fo_pc, fo_n, fo_base, fo_results, fo_scripts>>

\* The worker of item i throws (LLM error, timeout, parse error).
WorkerFails(i) ==
    /\ fo_pc = "batch"
    /\ fo_raw[i].status = "pending"
    /\ fo_raw' = [fo_raw EXCEPT ![i] = Failed]
    /\ fo_order' = Append(fo_order, i)
    /\ UNCHANGED <<fo_pc, fo_n, fo_base, fo_results, fo_scripts>>

\* run_theme_workers: the batch call returns once every worker has ended.
run_theme_workers ==
    /\ fo_pc = "batch"
    /\ \A i \in 1..fo_n : fo_raw[i].status # "pending"
    /\ IF BatchRaises(fo_raw)
       THEN /\ fo_pc' = "raised"
            /\ fo_results' = fo_results
       ELSE /\ fo_pc' = "collected"
            /\ fo_results' = Collect(fo_raw, fo_order)
    /\ UNCHANGED <<fo_n, fo_base, fo_raw, fo_order, fo_scripts>>

MergeScripts ==
    /\ fo_pc = "collected"
    /\ fo_scripts' = merge_scripts(fo_base, fo_results)
    /\ fo_pc' = "merged"
    /\ UNCHANGED <<fo_n, fo_base, fo_raw, fo_order, fo_results>>

NextFanOut ==
    \/ \E i \in 1..fo_n : WorkerReturns(i) /\ UNCHANGED vars_but_fo
    \/ \E i \in 1..fo_n : WorkerFails(i) /\ UNCHANGED vars_but_fo
    \/ run_theme_workers /\ UNCHANGED vars_but_fo
    \/ MergeScripts /\ UNCHANGED vars_but_fo


(***************************************************************************)
(* Part 3. Debate engine: init -> load_context -> run_round -> moderator   *)
(*         -> (continue: run_round | end)                                  *)
(***************************************************************************)

\* Bound: the largest DEBATE_MAX_ROUNDS / --max-rounds a run is given.
MaxRoundsBound == 3

\* DEBATE_MIN_ROUNDS (default 2).
DEBATE_MIN_ROUNDS == 2

\* DEBATE_CONSENSUS_CONFIDENCE (default 0.7), in hundredths.
DEBATE_CONSENSUS_CONFIDENCE == 70

Roles == {"fundamental", "risk", "growth", "sentiment"}
Actions == {"BUY", "HOLD", "SELL"}

Judgment(action, confidence) == [action |-> action, confidence |-> confidence]
NoJudgment == [action |-> "NONE", confidence |-> 0]
NoConclusion == [action |-> "NONE"]

\* The judgments an expert may give in a round (confidence in hundredths):
\* every expert may join or break the agreement, by its action or by a
\* confidence below the threshold; 70 is a confidence exactly at the threshold.
ExpertJudgments(role) ==
    CASE role = "fundamental" -> {Judgment("BUY", 80), Judgment("SELL", 80)}
      [] role = "risk" -> {Judgment("BUY", 70), Judgment("BUY", 60)}
      [] role = "growth" -> {Judgment("BUY", 90), Judgment("HOLD", 90)}
      [] role = "sentiment" -> {Judgment("BUY", 72), Judgment("BUY", 65)}

is_consensus_above_threshold(judgments) ==
    /\ \A r1, r2 \in Roles : judgments[r1].action = judgments[r2].action
    /\ \A r \in Roles : judgments[r].confidence > DEBATE_CONSENSUS_CONFIDENCE

\* The empty result that stands for the judgment of an expert whose worker
\* failed.
EmptyJudgment == [action |-> "", confidence |-> 0]

is_consensus_among_present(judgments) ==
    /\ \A r1, r2 \in Roles :
          (judgments[r1] # EmptyJudgment /\ judgments[r2] # EmptyJudgment) =>
              judgments[r1].action = judgments[r2].action
    /\ \A r \in Roles :
          judgments[r] # EmptyJudgment =>
              judgments[r].confidence >= DEBATE_CONSENSUS_CONFIDENCE

\* Consensus: the four actions are the same and the four confidences are at
\* or above the threshold.
is_consensus(judgments) ==
    /\ \A r1, r2 \in Roles : judgments[r1].action = judgments[r2].action
    /\ \A r \in Roles : judgments[r].confidence >= DEBATE_CONSENSUS_CONFIDENCE

MinRoundsOne == DEBATE_MIN_ROUNDS - 1

\* The fewest rounds of a debate.
min_rounds == DEBATE_MIN_ROUNDS

needs_more_debate_unbounded(n, judgments, max_rounds) ==
    IF n < min_rounds THEN TRUE ELSE ~is_consensus(judgments)

needs_more_debate_until_min(n, judgments, max_rounds) == n < min_rounds

\* The moderator's verdict after round n: another round is forced below the
\* minimum round count; from then on the debate goes on while there is no
\* consensus and the round limit is not reached.
needs_more_debate(n, judgments, max_rounds) ==
    IF n < min_rounds THEN TRUE
    ELSE IF is_consensus(judgments) THEN FALSE
    ELSE n < max_rounds

TentativeConclusion(judgments) == [action |-> judgments["fundamental"].action]

\* The conclusion field while the moderator asks for another round: none.
ConclusionOnContinue(judgments) == NoConclusion

DebateInit ==
    /\ db_pc = "init"
    /\ db_pc' = "load_context"
    /\ UNCHANGED <<db_max_rounds, db_rounds, db_current, db_conclusion,
                   db_conclusions, db_consensus_round>>

load_context ==
    /\ db_pc = "load_context"
    /\ db_pc' = "run_round"
    /\ UNCHANGED <<db_max_rounds, db_rounds, db_current, db_conclusion,
                   db_conclusions, db_consensus_round>>

\* One expert of the round in progress gives its judgment; the four experts
\* run in parallel and end in any order.
ExpertAnswers(role) ==
    /\ db_pc = "run_round"
    /\ db_current[role] = NoJudgment
    /\ \E j \in ExpertJudgments(role) :
          db_current' = [db_current EXCEPT ![role] = j]
    /\ UNCHANGED <<db_pc, db_max_rounds, db_rounds, db_conclusion,
                   db_conclusions, db_consensus_round>>

keep_latest_round(rounds, judgments) ==
    <<[round |-> Len(rounds) + 1, judgments |-> judgments]>>

\* rounds: the completed round is added at the end of the transcript, with
\* the next round number.
append_round(rounds, judgments) ==
    Append(rounds, [round |-> Len(rounds) + 1, judgments |-> judgments])

round_started(current) == \E r \in Roles : current[r] # NoJudgment

\* The batch of the four expert subgraphs returns when every one has ended.
round_complete(current) == \A r \in Roles : current[r] # NoJudgment

\* run_round returns: the round is appended to the transcript.
run_round ==
    /\ db_pc = "run_round"
    /\ round_complete(db_current)
    /\ db_rounds' = append_round(db_rounds, db_current)
    /\ db_current' = [r \in Roles |-> NoJudgment]
    /\ db_pc' = "moderator"
    /\ UNCHANGED <<db_max_rounds, db_conclusion, db_conclusions,
                   db_consensus_round>>

LastJudgments == db_rounds[Len(db_rounds)].judgments

\* moderator -> continue
ModeratorContinue ==
    /\ db_pc = "moderator"
    /\ needs_more_debate(Len(db_rounds), LastJudgments, db_max_rounds)
    /\ db_conclusion' = ConclusionOnContinue(LastJudgments)
    /\ db_pc' = "run_round"
    /\ UNCHANGED <<db_max_rounds, db_rounds, db_current, db_conclusions,
                   db_consensus_round>>

\* moderator -> end, consensus declared on the latest round
ModeratorConsensus ==
    /\ db_pc = "moderator"
    /\ ~needs_more_debate(Len(db_rounds), LastJudgments, db_max_rounds)
    /\ is_consensus(LastJudgments)
    /\ db_conclusion' = [action |-> LastJudgments["fundamental"].action]
    /\ db_conclusions' = db_conclusions + 1
    /\ db_consensus_round' = Len(db_rounds)
    /\ db_pc' = "end"
    /\ UNCHANGED <<db_max_rounds, db_rounds, db_current>>

\* moderator -> end without consensus: the round limit forces a best-effort
\* conclusion, whose action the moderator picks.
ModeratorForcedEnd ==
    /\ db_pc = "moderator"
    /\ ~needs_more_debate(Len(db_rounds), LastJudgments, db_max_rounds)
    /\ ~is_consensus(LastJudgments)
    /\ \E a \in Actions : db_conclusion' = [action |-> a]
    /\ db_conclusions' = db_conclusions + 1
    /\ db_pc' = "end"
    /\ UNCHANGED <<db_max_rounds, db_rounds, db_current, db_consensus_round>>

\* The worker of one expert of the round in progress fails: the round gets
\* the empty result in its place.
ExpertFails(role) ==
    /\ db_pc = "run_round"
    /\ db_current[role] = NoJudgment
    /\ db_current' = [db_current EXCEPT ![role] = EmptyJudgment]
    /\ UNCHANGED <<db_pc, db_max_rounds, db_rounds, db_conclusion,
                   db_conclusions, db_consensus_round>>

NextDebate ==
    \/ DebateInit /\ UNCHANGED vars_but_db
    \/ load_context /\ UNCHANGED vars_but_db
    \/ \E role \in Roles : ExpertAnswers(role) /\ UNCHANGED vars_but_db
    \/ run_round /\ UNCHANGED vars_but_db
    \/ ModeratorContinue /\ UNCHANGED vars_but_db
    \/ ModeratorConsensus /\ UNCHANGED vars_but_db
    \/ ModeratorForcedEnd /\ UNCHANGED vars_but_db

\* The debate with expert workers that may fail.
NextDebateFaulty ==
    \/ NextDebate
    \/ \E role \in Roles : ExpertFails(role) /\ UNCHANGED vars_but_db


(***************************************************************************)
(* Part 4. Refiner: refine_transitions                                     *)
(***************************************************************************)

\* Bounds: the longest merged script handed to the Refiner, and the most
\* edits of one reply.
MaxRefineTurns == 3
MaxEdits == 2

\* The merged scripts of k turns, as merge_scripts normalized them.
MergedScripts(k) ==
    normalize_script_turns(
        [j \in 1..k |-> [id |-> 0,
                         speaker |-> IF j % 2 = 1 THEN "host" ELSE "analyst",
                         text |-> ItemTexts[j],
                         sources |-> <<GoodArticle>>]])

\* The Refiner sees only id, speaker and text of every turn.
scripts_minimal(scripts) ==
    [i \in DOMAIN scripts |-> [id |-> scripts[i].id,
                               speaker |-> scripts[i].speaker,
                               text |-> scripts[i].text]]

GivenIds(scripts) ==
    {scripts_minimal(scripts)[i].id : i \in DOMAIN scripts}

\* What the model may write into one element of "edits": any id, also one
\* that is no id of the scripts, any speaker name, a text or none.
RawEdits ==
    [id : -1..MaxRefineTurns,
     speaker : ALLOWED_SPEAKERS \cup {"guest"},
     text : {"", "x"}]

\* The output schema of the Refiner: an edit is {id, speaker, text} with one
\* of the two speakers. A reply holding anything else is a schema mismatch,
\* which is a failed call (RefinerFailures, "unparsable").
MatchesEditSchema(e) == e.speaker \in ALLOWED_SPEAKERS

\* An edit of a reply that parsed: the model is free to name any id and to
\* leave the text empty.
RefinerEdits == {e \in RawEdits : MatchesEditSchema(e)}

EditAppliesAlways(scripts, e) == TRUE

EditAppliesWithEmptyText(scripts, e) == e.id \in GivenIds(scripts)

\* An edit is applied when its id is an id of the scripts and it is not empty.
EditApplies(scripts, e) ==
    /\ e.id \in GivenIds(scripts)
    /\ e.text # ""

AppliedEdits(scripts, edits) ==
    SelectSeq(edits, LAMBDA e : EditApplies(scripts, e))

ApplyEditReplacingTurn(scripts, e) ==
    [i \in DOMAIN scripts |->
        IF scripts[i].id = e.id
        THEN [id |-> e.id, speaker |-> e.speaker, text |-> e.text,
              sources |-> <<>>]
        ELSE scripts[i]]

\* Overwrite speaker and text of the turn with the edit's id.
ApplyEdit(scripts, e) ==
    [i \in DOMAIN scripts |->
        IF scripts[i].id = e.id
        THEN [scripts[i] EXCEPT !.speaker = e.speaker, !.text = e.text]
        ELSE scripts[i]]

RECURSIVE ApplyEdits(_, _)
ApplyEdits(scripts, edits) ==
    IF edits = <<>> THEN scripts
    ELSE ApplyEdits(ApplyEdit(scripts, Head(edits)), Tail(edits))

\* The Refiner LLM replies with its edits.
RefinerReplies ==
    /\ rf_pc = "merged"
    /\ rf_edits' \in SeqUpTo(RefinerEdits, MaxEdits)
    /\ rf_pc' = "replied"
    /\ rf_outcome' = "edits"
    /\ UNCHANGED <<rf_scripts, rf_applied, rf_result, rf_attempts>>

\* refine_transitions applies the reply to the merged scripts.
refine_transitions ==
    /\ rf_pc = "replied"
    /\ rf_applied' = AppliedEdits(rf_scripts, rf_edits)
    /\ rf_result' = ApplyEdits(rf_scripts, AppliedEdits(rf_scripts, rf_edits))
    /\ rf_pc' = "refined"
    /\ UNCHANGED <<rf_scripts, rf_edits, rf_attempts, rf_outcome>>

\* Bound: THEME_REFINER_OPENAI_MAX_RETRIES, the retries after a failed call.
MaxRetries == 2

\* How a Refiner call fails: its reply does not parse or does not match the
\* schema, the call times out, or the call ends with another error.
RefinerFailures == {"unparsable", "timeout", "error"}

refiner_failure_raises == TRUE

\* A Refiner that failed for good does not fail the stage.
refiner_failure_is_fatal == FALSE

\* The scripts of the stage when the Refiner failed for good: the merged
\* scripts, as they were.
RefineFallback(scripts) == scripts

\* A Refiner call fails and is tried again.
RefinerRetries ==
    /\ rf_pc = "merged"
    /\ rf_attempts < MaxRetries
    /\ \E kind \in RefinerFailures : rf_outcome' = kind
    /\ rf_attempts' = rf_attempts + 1
    /\ UNCHANGED <<rf_pc, rf_scripts, rf_edits, rf_applied, rf_result>>

\* The last Refiner call fails too: refine_transitions keeps the merged
\* scripts and the stage goes on.
RefinerGivesUp ==
    /\ rf_pc = "merged"
    /\ rf_attempts = MaxRetries
    /\ rf_attempts' = rf_attempts + 1
    /\ IF refiner_failure_is_fatal
       THEN /\ rf_outcome' = "raised"
            /\ rf_pc' = "raised"
            /\ rf_result' = rf_result
       ELSE /\ \E kind \in RefinerFailures : rf_outcome' = kind
            /\ rf_pc' = "refined"
            /\ rf_result' = RefineFallback(rf_scripts)
    /\ UNCHANGED <<rf_scripts, rf_edits, rf_applied>>

NextRefine ==
    \/ RefinerReplies /\ UNCHANGED vars_but_rf
    \/ refine_transitions /\ UNCHANGED vars_but_rf
    \/ RefinerRetries /\ UNCHANGED vars_but_rf
    \/ RefinerGivesUp /\ UNCHANGED vars_but_rf

(***************************************************************************)
(* Part 5. orchestrator.py: global_prefetch_node -> opening_node ->        *)
(*         theme_node -> ticker_pipeline_node -> closing_node ->           *)
(*         cleanup_cache_node -> END, then main() saves and cleans up      *)
(***************************************************************************)

\* Bounds: the most turns of an agent with a single branch (opening,
\* closing), the most themes of the opening, the most user tickers.
MaxStageTurns == 2
MaxThemes == 2
MaxTickers == 2

\* The agents in pipeline order; --stage k runs the agents 1..k+1 of it.
STAGES == <<"opening", "theme", "ticker", "closing">>

StageIndex(name) == CHOOSE i \in DOMAIN STAGES : STAGES[i] = name

\* temp/<artifact>.json written by each agent.
ArtifactOf(name) ==
    CASE name = "opening" -> "opening"
      [] name = "theme" -> "theme"
      [] name = "ticker" -> "ticker_pipeline"
      [] name = "closing" -> "closing"

Artifacts == {"opening", "theme", "ticker_pipeline", "closing"}

\* temp/ artifacts a standalone agent loads its base from, in order of
\* preference.
RequiredArtifacts(name) ==
    CASE name = "opening" -> <<>>
      [] name = "theme" -> <<"opening">>
      [] name = "ticker" -> <<"theme">>
      [] name = "closing" -> <<"ticker_pipeline", "theme">>

\* A file is <<>> when it does not exist, else <<its content>>.
NoFile == <<>>
File(content) == <<content>>

ExistingArtifacts(name, temp) ==
    SelectSeq(RequiredArtifacts(name), LAMBDA a : temp[a] # NoFile)

BaseNeverMissing(name, temp) == FALSE

\* The standalone agent finds none of the artifacts it needs.
BaseMissing(name, temp) ==
    /\ RequiredArtifacts(name) # <<>>
    /\ ExistingArtifacts(name, temp) = <<>>

load_base_from_temp(name, temp) ==
    IF ExistingArtifacts(name, temp) = <<>> THEN <<>>
    ELSE temp[Head(ExistingArtifacts(name, temp))][1]

ClosingText == "z"
TickerTexts == <<"k", "l", "m", "n">>

StageTurn(text, k) ==
    [id |-> k - 1, speaker |-> IF k % 2 = 1 THEN "host" ELSE "analyst",
     text |-> text, sources |-> <<GoodArticle>>]

\* The turns a single-branch agent wrote (none when its reply did not parse).
StageTurns(text, n) == [j \in 1..n |-> StageTurn(text, j)]

\* What the pipeline of ticker i (debate, then script writer) may return.
TickerOutputs(i) ==
    { StageTurns(TickerTexts[i], 1), StageTurns(TickerTexts[i], 2) }

\* The outcomes of the n branches of a fan-out stage: each branch failed or
\* returned one of its outputs.
BranchOutcomes(n, outputs) ==
    {raw \in [1..n -> {Failed} \cup UNION {{Returned(w) : w \in outputs[i]} : i \in 1..n}] :
        \A i \in 1..n : raw[i] = Failed \/ raw[i].scripts \in outputs[i]}

ChapterRangeByLength(name, before, after) ==
    [name |-> name, start_id |-> before, end_id |-> after - 1]

ChapterRangeOfOwnIds(name, before, after) ==
    IF after <= before
    THEN [name |-> name, start_id |-> -1, end_id |-> -1]
    ELSE [name |-> name, start_id |-> 0, end_id |-> after - before - 1]

\* chapter[*]: the ids the agent's turns got, -1/-1 when it added none.
ChapterRange(name, before, after) ==
    IF after <= before
    THEN [name |-> name, start_id |-> -1, end_id |-> -1]
    ELSE [name |-> name, start_id |-> before, end_id |-> after - 1]

route_after_without_cutoff(node, mode) ==
    IF node = "closing" THEN "cleanup" ELSE STAGES[StageIndex(node) + 1]

\* The conditional edges of the graph: after an agent, the next agent when
\* the stage cutoff allows it, else cleanup_cache_node; a single agent of
\* --agent goes to cleanup_cache_node.
route_after(node, mode) ==
    IF mode.kind = "agent" THEN "cleanup"
    ELSE IF StageIndex(node) <= mode.stage
         THEN STAGES[StageIndex(node) + 1]
         ELSE "cleanup"

\* The node after global_prefetch_node.
EntryNode(mode) == IF mode.kind = "agent" THEN mode.agent ELSE "opening"

BaseOfFresh(name) == <<>>

\* The scripts an agent starts from: the state of the run, or in a
\* standalone run the temp/ artifact of its predecessor.
BaseOf(name) ==
    IF or_mode.kind = "agent" THEN load_base_from_temp(name, or_temp)
    ELSE or_scripts

\* global_prefetch_node: prefetch_all(date) fills cache/{date}.
global_prefetch_node ==
    /\ or_pc = "cli"
    /\ or_cache' = "present"
    /\ or_pc' = EntryNode(or_mode)
    /\ UNCHANGED <<or_mode, or_user_tickers, or_scripts, or_chapter, or_ran,
                   or_temp, or_cleaned, or_saved, or_exit, or_error>>

\* The state update of an agent node that returned: scripts, chapter, the
\* agent's temp/ artifact, and the edge to the next node.
AgentReturns(name, base, scripts_after, branches) ==
    /\ or_scripts' = scripts_after
    /\ or_chapter' = Append(or_chapter,
                            ChapterRange(name, Len(base), Len(scripts_after)))
    /\ or_ran' = Append(or_ran, [agent |-> name, before |-> Len(base),
                                 after |-> Len(scripts_after),
                                 branches |-> branches])
    /\ or_temp' = [or_temp EXCEPT ![ArtifactOf(name)] = File(scripts_after)]
    /\ or_pc' = route_after(name, or_mode)
    /\ UNCHANGED <<or_mode, or_user_tickers, or_cache, or_cleaned, or_saved,
                   or_exit, or_error>>

\* An exception leaves the graph: main() does not save.
GraphRaises(error) ==
    /\ or_pc' = "raised"
    /\ or_error' = error
    /\ UNCHANGED <<or_mode, or_user_tickers, or_scripts, or_chapter, or_ran,
                   or_temp, or_cache, or_cleaned, or_saved, or_exit>>

opening_node ==
    /\ or_pc = "opening"
    /\ \E n \in 0..MaxStageTurns :
          AgentReturns("opening", <<>>,
                       normalize_script_turns(StageTurns(BaseText, n)), <<>>)

\* theme_node: load base, run_theme_workers, merge_scripts; the Refiner
\* leaves count and order of the merged turns as they are.
theme_node ==
    /\ or_pc = "theme"
    /\ ~BaseMissing("theme", or_temp) \/ or_mode.kind = "stage"
    /\ \E n \in 0..MaxThemes :
          \E raw \in BranchOutcomes(n, [i \in 1..n |-> WorkerOutputs(i)]) :
          AgentReturns("theme", BaseOf("theme"),
                       merge_scripts(BaseOf("theme"), Collect(raw, <<>>)), raw)

\* ticker_pipeline_node: one debate and one script writer per user ticker,
\* merged in the order of user_tickers; no ticker, nothing to do.
ticker_pipeline_node ==
    /\ or_pc = "ticker"
    /\ ~BaseMissing("ticker", or_temp) \/ or_mode.kind = "stage"
    /\ IF or_user_tickers = <<>>
       THEN AgentReturns("ticker", BaseOf("ticker"), BaseOf("ticker"), <<>>)
       ELSE \E raw \in BranchOutcomes(Len(or_user_tickers),
                       [i \in DOMAIN or_user_tickers |-> TickerOutputs(i)]) :
               AgentReturns("ticker", BaseOf("ticker"),
                            merge_scripts(BaseOf("ticker"), Collect(raw, <<>>)),
                            raw)

closing_node ==
    /\ or_pc = "closing"
    /\ ~BaseMissing("closing", or_temp) \/ or_mode.kind = "stage"
    /\ \E n \in 0..MaxStageTurns :
          AgentReturns("closing", BaseOf("closing"),
                       normalize_script_turns(
                           BaseOf("closing") \o StageTurns(ClosingText, n)),
                       <<>>)

\* A standalone theme, ticker or closing agent does not find the artifact it
\* loads its base from: FileNotFoundError.
load_base_fails ==
    /\ or_pc \in {"theme", "ticker", "closing"}
    /\ or_mode.kind = "agent"
    /\ BaseMissing(or_pc, or_temp)
    /\ GraphRaises("FileNotFoundError")

cleanup_cache_node ==
    /\ or_pc = "cleanup"
    /\ or_cache' = "absent"
    /\ or_cleaned' = or_cleaned \cup {"node"}
    /\ or_pc' = "END"
    /\ UNCHANGED <<or_mode, or_user_tickers, or_scripts, or_chapter, or_ran,
                   or_temp, or_saved, or_exit, or_error>>

Date == "20251222"
Nutshell == "n"

save_whole_state(state) == state

\* The payload of Podcast/{date}/script.json, taken from the final state.
save_payload(state) ==
    [date |-> state.date, nutshell |-> state.nutshell,
     user_tickers |-> state.user_tickers, chapter |-> state.chapter,
     scripts |-> state.scripts]

\* BriefingState at the end of the graph.
BriefingState ==
    [date |-> Date, user_tickers |-> or_user_tickers, nutshell |-> Nutshell,
     themes |-> <<>>, scripts |-> or_scripts, current_section |-> "",
     chapter |-> or_chapter]

\* main(): the graph ended, the result is written to Podcast/{date}/script.json.
main_saves ==
    /\ or_pc = "END"
    /\ or_saved' = File(save_payload(BriefingState))
    /\ or_pc' = "saved"
    /\ UNCHANGED <<or_mode, or_user_tickers, or_scripts, or_chapter, or_ran,
                   or_temp, or_cache, or_cleaned, or_exit, or_error>>

finally_skipped == FALSE

\* main() calls cleanup_cache_dir() in its finally block.
finally_cleans == TRUE

\* main()'s finally block: cleanup_cache_dir(), then the process ends, with a
\* non-zero status when an exception ended the graph.
main_finally ==
    /\ or_pc \in {"saved", "raised"}
    /\ IF finally_cleans
       THEN /\ or_cache' = "absent"
            /\ or_cleaned' = or_cleaned \cup {"finally"}
       ELSE UNCHANGED <<or_cache, or_cleaned>>
    /\ or_exit' = IF or_pc = "raised" THEN 1 ELSE 0
    /\ or_pc' = "exited"
    /\ UNCHANGED <<or_mode, or_user_tickers, or_scripts, or_chapter, or_ran,
                   or_temp, or_saved, or_error>>

\* The agents that are one LLM conversation, with no fan-out below them.
SingleBranchStages == {"opening", "closing"}

single_branch_timeout_ignored(name) == FALSE

\* A timeout of a single-branch agent ends the agent with an exception.
single_branch_timeout_is_fatal(name) == name \in SingleBranchStages

\* The LLM call of the opening or closing agent times out.
single_branch_times_out ==
    /\ or_pc \in SingleBranchStages
    /\ ~BaseMissing(or_pc, or_temp) \/ or_mode.kind = "stage"
    /\ IF single_branch_timeout_is_fatal(or_pc)
       THEN GraphRaises("timeout")
       ELSE AgentReturns(or_pc, BaseOf(or_pc), BaseOf(or_pc), <<Failed>>)

\* temp/ artifacts left by earlier runs.
LeftOpening == normalize_script_turns(StageTurns(BaseText, 1))
LeftTheme == merge_scripts(LeftOpening, <<StageTurns(ItemTexts[1], 1)>>)
LeftTicker == merge_scripts(LeftTheme, <<StageTurns(TickerTexts[1], 1)>>)

TempStates ==
    { [a \in Artifacts |->
          CASE a = "opening" -> o
            [] a = "theme" -> t
            [] a = "ticker_pipeline" -> k
            [] a = "closing" -> NoFile] :
        o \in {NoFile, File(LeftOpening)},
        t \in {NoFile, File(LeftTheme)},
        k \in {NoFile, File(LeftTicker)} }

TICKERS == <<"NVDA", "AAPL", "GOOG", "MSFT">>

\* python orchestrator.py DATE [--stage k | --agent name] [-t TICKERS]
RunModes ==
    {[kind |-> "stage", stage |-> k, agent |-> "none"] : k \in 0..3}
    \cup {[kind |-> "agent", stage |-> 3, agent |-> STAGES[i]] : i \in DOMAIN STAGES}

NextOrchestrator ==
    \/ global_prefetch_node /\ UNCHANGED vars_but_or
    \/ opening_node /\ UNCHANGED vars_but_or
    \/ theme_node /\ UNCHANGED vars_but_or
    \/ ticker_pipeline_node /\ UNCHANGED vars_but_or
    \/ closing_node /\ UNCHANGED vars_but_or
    \/ load_base_fails /\ UNCHANGED vars_but_or
    \/ single_branch_times_out /\ UNCHANGED vars_but_or
    \/ cleanup_cache_node /\ UNCHANGED vars_but_or
    \/ main_saves /\ UNCHANGED vars_but_or
    \/ main_finally /\ UNCHANGED vars_but_or

(***************************************************************************)
(* Part 6. Tool get_ohlcv                                                  *)
(***************************************************************************)

\* MAX_OHLCV_ROWS: the most rows a response carries.
MAX_OHLCV_ROWS == 200

\* Bound: how far above MAX_OHLCV_ROWS the downloaded row counts go.
MaxExtraRows == 3

\* What yfinance.download() gave, after the columns are normalized and the
\* NaN rows dropped: the number of rows, and whether the columns were the
\* expected ones.
Downloads == [row_count : 0..(MAX_OHLCV_ROWS + MaxExtraRows), columns_ok : BOOLEAN]

exceeds_cap_inclusive(row_count) == row_count >= MAX_OHLCV_ROWS

\* row_count > MAX_OHLCV_ROWS?
exceeds_cap(row_count) == row_count > MAX_OHLCV_ROWS

\* Normalize columns + drop NaN: the number of rows left; none when the
\* columns are not the expected ones.
normalized_row_count(d) == IF d.columns_ok THEN d.row_count ELSE 0

\* The response of get_ohlcv; a row is written as its index.
get_ohlcv(d) ==
    IF exceeds_cap(normalized_row_count(d))
    THEN [rows |-> <<>>, too_many_rows |-> TRUE,
          row_count |-> normalized_row_count(d)]
    ELSE [rows |-> [i \in 1..normalized_row_count(d) |-> i],
          too_many_rows |-> FALSE, row_count |-> normalized_row_count(d)]

NoResponse == [rows |-> <<>>, too_many_rows |-> FALSE, row_count |-> -1]

OhlcvReturns ==
    /\ oh_pc = "called"
    /\ oh_response' = get_ohlcv(oh_download)
    /\ oh_pc' = "returned"
    /\ UNCHANGED oh_download

NextOhlcv ==
    \/ OhlcvReturns /\ UNCHANGED vars_but_oh

(***************************************************************************)
(* Part 7. Web player: EpisodePlayer, Playbar, ScriptViewer, Slideshow     *)
(***************************************************************************)

\* Playback rates are written in thousandths (1.1x is 1100), times in
\* thousandths of a second (so a turn's time[0] / 1000 seconds is written
\* time[0]).

\* Bound: the length of the episode's audio, in steps of 250 ms.
MaxAudioSteps == 8

\* useState(1.1)
InitialPlaybackRate == 1100

\* Math.max(0.25, ...), Math.min(2, ...), playbackRate +- 0.05, resetSpeed
MIN_RATE == 250
MAX_RATE == 2000
RATE_STEP == 50
RESET_RATE == 1000

\* Math.abs(audio.currentTime - currentTime) > 0.5
SYNC_TOLERANCE == 500

\* skipBackward / skipForward: 10 seconds
SKIP == 10000

duration == MaxAudioSteps * 250

\* episode.scripts: the start time[0] of every turn, in ms.
TurnStarts == <<0, 750, 1000>>

\* An episode whose first turn starts after the beginning of the audio.
LateTurnStarts == <<250, 750, 1000>>

\* episode.scripts: the turns in order, ids 0..N-1, each with its time[0].
EpisodeScripts(starts) ==
    [i \in DOMAIN starts |-> [id |-> i - 1, time |-> starts[i]]]

Episodes == {EpisodeScripts(TurnStarts), EpisodeScripts(LateTurnStarts)}

\* getSlides(episodeDate): the slides in order, each with the id of the turn
\* it belongs to. Slides are counted from 0, as in the component.
Slides == <<[turnId |-> 0], [turnId |-> 2]>>

SlideIndexes == 0..(Len(Slides) - 1)

\* lockedSlideIndex === null; no slide was clicked in the last step.
NoLock == -1
NoSlide == -1

\* The variables of the speed popover, of the audio element and of the
\* slideshow.
pl_speed == <<pl_rate, pl_rate_before, pl_control>>
pl_element == <<pl_audio_paused, pl_loop, pl_end_task>>
pl_slides == <<pl_locked, pl_scrolled>>

clamp_rate_below_only(newRate) == IF newRate < MIN_RATE THEN MIN_RATE ELSE newRate

\* Math.max(0.25, Math.min(2, newRate))
clamp_rate(newRate) ==
    IF newRate < MIN_RATE THEN MIN_RATE
    ELSE IF newRate > MAX_RATE THEN MAX_RATE ELSE newRate

\* Math.round(clampedRate * 100) / 100
round_rate(clampedRate) == ((clampedRate + 5) \div 10) * 10

\* updatePlaybackRate(newRate): the rate the state and the audio element get.
updatePlaybackRate(newRate) == round_rate(clamp_rate(newRate))

SpeedControl(control, newRate) ==
    /\ pl_rate' = updatePlaybackRate(newRate)
    /\ pl_rate_before' = pl_rate
    /\ pl_control' = control
    /\ pl_slide_clicked' = NoSlide
    /\ UNCHANGED <<pl_audio_time, pl_current_time, pl_is_playing, pl_clicked,
                   pl_scripts, pl_audio_ok, pl_element, pl_slides>>

\* The handlers of the speed popover. The buttons are disabled at the ends of
\* the range (and reset at 1.00x); the handlers themselves do not test it.
incrementSpeed == SpeedControl("increment", pl_rate + RATE_STEP)
decrementSpeed == SpeedControl("decrement", pl_rate - RATE_STEP)
resetSpeed == SpeedControl("reset", RESET_RATE)

RECURSIVE last_turn_at(_, _, _)
last_turn_at(scripts, timeInMs, i) ==
    IF i < 1 THEN 0
    ELSE IF timeInMs >= scripts[i].time THEN scripts[i].id
         ELSE last_turn_at(scripts, timeInMs, i - 1)

getCurrentTurnIdFromStart(scripts, timeInMs) ==
    IF \E i \in DOMAIN scripts : timeInMs >= scripts[i].time
    THEN scripts[CHOOSE i \in DOMAIN scripts :
                    /\ timeInMs >= scripts[i].time
                    /\ \A j \in 1..(i - 1) : timeInMs < scripts[j].time].id
    ELSE 0

\* getCurrentTurnId: from the last turn down, the id of the first turn found
\* whose time[0] is not after the time; 0 when there is none.
getCurrentTurnId(scripts, timeInMs) ==
    last_turn_at(scripts, timeInMs, Len(scripts))

\* const currentTurnId = getCurrentTurnId(currentTime)
currentTurnId == getCurrentTurnId(pl_scripts, pl_current_time)

\* ScriptViewer: isActive={script.id === currentTurnId}
isActive(script) == script.id = currentTurnId

RECURSIVE last_slide_at(_, _)
last_slide_at(turnId, i) ==
    IF i < 0 THEN 0
    ELSE IF turnId >= Slides[i + 1].turnId THEN i
         ELSE last_slide_at(turnId, i - 1)

\* Slideshow: currentSlideIndex, from the turn the player is at.
currentSlideIndex(turnId) == last_slide_at(turnId, Len(Slides) - 1)

\* The slide of the player's time t.
SlideAt(t) == currentSlideIndex(getCurrentTurnId(pl_scripts, t))

\* if (lockedSlideIndex !== null) return;  in the auto-scroll effect
auto_scroll_runs(lockedSlideIndex) == lockedSlideIndex = NoLock

\* The auto-scroll effect of Slideshow, run after a render in which
\* currentSlideIndex or lockedSlideIndex changed: the slide that is scrolled
\* into view afterwards.
auto_scroll(locked_before, slide_before, locked_after, slide_after) ==
    IF (locked_after # locked_before \/ slide_after # slide_before)
       /\ auto_scroll_runs(locked_after)
    THEN slide_after
    ELSE pl_scrolled

sync_always(audio_time, currentTime) == currentTime

\* Playbar's effect on a change of the currentTime prop: the audio element is
\* moved only when it is more than 0.5 s away.
sync_audio(audio_time, currentTime) ==
    IF audio_time - currentTime > SYNC_TOLERANCE
       \/ currentTime - audio_time > SYNC_TOLERANCE
    THEN currentTime
    ELSE audio_time

\* setCurrentTime(t) of EpisodePlayer and the render that follows: a state
\* that does not change causes no render and no effect.
setCurrentTime(t) ==
    /\ pl_current_time' = t
    /\ pl_audio_time' = IF t = pl_current_time THEN pl_audio_time
                        ELSE sync_audio(pl_audio_time, t)
    /\ pl_scrolled' = auto_scroll(pl_locked, SlideAt(pl_current_time),
                                  pl_locked, SlideAt(t))

\* handleTurnClick(script): a click on turn i of the script viewer.
handleTurnClick(i) ==
    /\ setCurrentTime(pl_scripts[i].time)
    /\ pl_clicked' = i
    /\ pl_slide_clicked' = NoSlide
    /\ UNCHANGED <<pl_speed, pl_is_playing, pl_scripts, pl_audio_ok,
                   pl_element, pl_locked>>

\* The position of the audio element after play(): an element whose
\* playback has ended starts again from the beginning.
position_after_play(audio_time, loop) ==
    IF audio_time = duration /\ ~loop THEN 0 ELSE audio_time

\* togglePlay: pause() or play() on the audio element, and the flag is
\* turned over. play() of an element whose file could not be loaded is
\* rejected and leaves the element paused; togglePlay does not look at the
\* promise play() returns.
togglePlay ==
    /\ pl_is_playing' = ~pl_is_playing
    /\ IF pl_is_playing
       THEN /\ pl_audio_paused' = TRUE
            /\ UNCHANGED <<pl_audio_time, pl_clicked>>
       ELSE IF pl_audio_ok
            THEN /\ pl_audio_paused' = FALSE
                 /\ pl_audio_time' = position_after_play(pl_audio_time, pl_loop)
                 /\ pl_clicked' =
                       IF position_after_play(pl_audio_time, pl_loop) = pl_audio_time
                       THEN pl_clicked ELSE 0
            ELSE UNCHANGED <<pl_audio_paused, pl_audio_time, pl_clicked>>
    /\ pl_slide_clicked' = NoSlide
    /\ UNCHANGED <<pl_speed, pl_current_time, pl_scripts, pl_audio_ok,
                   pl_loop, pl_end_task, pl_slides>>

\* toggleLoop: isLooping and audio.loop are turned over together.
toggleLoop ==
    /\ pl_loop' = ~pl_loop
    /\ pl_slide_clicked' = NoSlide
    /\ UNCHANGED <<pl_speed, pl_audio_time, pl_current_time, pl_is_playing,
                   pl_clicked, pl_scripts, pl_audio_ok, pl_audio_paused,
                   pl_end_task, pl_slides>>

\* The audio element is moved to position t: an element that is playing
\* without loop and gets to the end of the audio has the task queued that
\* pauses it and fires "ended".
end_task_after(t) ==
    pl_end_task \/ (~pl_audio_paused /\ ~pl_loop /\ t = duration)

\* The audio plays on; the timeupdate event is delivered by AudioTimeUpdate.
\* At the end of the audio a looping element starts again, another one
\* stays at the end.
AudioAdvances ==
    /\ ~pl_audio_paused
    /\ pl_audio_time < duration \/ pl_loop
    /\ \E d \in {250, 500} :
          pl_audio_time' = IF pl_audio_time + d < duration
                           THEN pl_audio_time + d
                           ELSE IF pl_loop THEN 0 ELSE duration
    /\ pl_end_task' = end_task_after(pl_audio_time')
    /\ pl_clicked' = 0
    /\ pl_slide_clicked' = NoSlide
    /\ UNCHANGED <<pl_speed, pl_current_time, pl_is_playing, pl_scripts,
                   pl_audio_ok, pl_audio_paused, pl_loop, pl_slides>>

\* The task of the audio element at the end of the audio: an element that is
\* still at the end, playing and not looping is paused and fires "ended",
\* whose handler is onEnded={() => setIsPlaying(false)}.
AudioEnded ==
    /\ pl_end_task
    /\ pl_end_task' = FALSE
    /\ IF pl_audio_time = duration /\ ~pl_loop /\ ~pl_audio_paused
       THEN /\ pl_audio_paused' = TRUE
            /\ pl_is_playing' = FALSE
       ELSE UNCHANGED <<pl_audio_paused, pl_is_playing>>
    /\ pl_slide_clicked' = NoSlide
    /\ UNCHANGED <<pl_speed, pl_audio_time, pl_current_time, pl_clicked,
                   pl_scripts, pl_audio_ok, pl_loop, pl_slides>>

\* onTimeUpdate: handleTimeUpdate -> setCurrentTime(audio.currentTime)
AudioTimeUpdate ==
    /\ pl_current_time # pl_audio_time
    /\ setCurrentTime(pl_audio_time)
    /\ pl_slide_clicked' = NoSlide
    /\ UNCHANGED <<pl_speed, pl_is_playing, pl_clicked, pl_scripts,
                   pl_audio_ok, pl_element, pl_locked>>

\* The duration state of Playbar: 0 until the metadata of the audio is
\* loaded.
duration_state == IF pl_audio_ok THEN duration ELSE 0

skipBackward ==
    /\ pl_audio_time' = IF pl_audio_time - SKIP < 0 THEN 0 ELSE pl_audio_time - SKIP
    /\ pl_clicked' = 0
    /\ pl_slide_clicked' = NoSlide
    /\ UNCHANGED <<pl_speed, pl_current_time, pl_is_playing, pl_scripts,
                   pl_audio_ok, pl_element, pl_slides>>

skipForward ==
    /\ pl_audio_time' = IF pl_audio_time + SKIP > duration_state
                        THEN duration_state
                        ELSE pl_audio_time + SKIP
    /\ pl_end_task' = end_task_after(pl_audio_time')
    /\ pl_clicked' = 0
    /\ pl_slide_clicked' = NoSlide
    /\ UNCHANGED <<pl_speed, pl_current_time, pl_is_playing, pl_scripts,
                   pl_audio_ok, pl_audio_paused, pl_loop, pl_slides>>

\* handleSeek: the progress slider (0..duration) sets the audio element and
\* the state.
handleSeek ==
    /\ \E k \in 0..MaxAudioSteps :
          /\ k * 250 <= duration_state
          /\ pl_audio_time' = k * 250
          /\ pl_current_time' = k * 250
          /\ pl_scrolled' = auto_scroll(pl_locked, SlideAt(pl_current_time),
                                        pl_locked, SlideAt(k * 250))
    /\ pl_end_task' = end_task_after(pl_audio_time')
    /\ pl_clicked' = 0
    /\ pl_slide_clicked' = NoSlide
    /\ UNCHANGED <<pl_speed, pl_is_playing, pl_scripts, pl_audio_ok,
                   pl_audio_paused, pl_loop, pl_locked>>

\* handleLockToggle(index): the lock button of slide index.
handleLockToggle(index) ==
    /\ pl_locked' = IF pl_locked = index THEN NoLock ELSE index
    /\ pl_scrolled' = auto_scroll(pl_locked, SlideAt(pl_current_time),
                                  pl_locked', SlideAt(pl_current_time))
    /\ pl_slide_clicked' = NoSlide
    /\ UNCHANGED <<pl_speed, pl_audio_time, pl_current_time, pl_is_playing,
                   pl_clicked, pl_scripts, pl_audio_ok, pl_element>>

slide_click_navigates_locked(lockedSlideIndex) == TRUE

\* if (lockedSlideIndex !== null) return;  in handleSlideClick of Slideshow
slide_click_navigates(lockedSlideIndex) == lockedSlideIndex = NoLock

\* episode.scripts.find((s) => s.id === turnId)
FindScript(turnId) ==
    SelectSeq(pl_scripts, LAMBDA s : s.id = turnId)

\* A click on slide index: Slideshow's handleSlideClick, then
\* onSlideClick(slide.turnId), which is EpisodePlayer's handleSlideClick.
handleSlideClick(index) ==
    /\ pl_slide_clicked' = index
    /\ IF slide_click_navigates(pl_locked)
          /\ FindScript(Slides[index + 1].turnId) # <<>>
       THEN /\ setCurrentTime(FindScript(Slides[index + 1].turnId)[1].time)
            /\ pl_clicked' = 0
       ELSE UNCHANGED <<pl_current_time, pl_audio_time, pl_scrolled, pl_clicked>>
    /\ UNCHANGED <<pl_speed, pl_is_playing, pl_scripts, pl_audio_ok,
                   pl_element, pl_locked>>

\* The handlers of Playbar and of the script viewer, for an episode whose
\* audio plays without loop.
NextPlayer ==
    \/ incrementSpeed /\ UNCHANGED vars_but_pl
    \/ decrementSpeed /\ UNCHANGED vars_but_pl
    \/ resetSpeed /\ UNCHANGED vars_but_pl
    \/ \E i \in DOMAIN pl_scripts : handleTurnClick(i) /\ UNCHANGED vars_but_pl
    \/ togglePlay /\ UNCHANGED vars_but_pl
    \/ AudioAdvances /\ UNCHANGED vars_but_pl
    \/ AudioEnded /\ UNCHANGED vars_but_pl
    \/ AudioTimeUpdate /\ UNCHANGED vars_but_pl
    \/ skipBackward /\ UNCHANGED vars_but_pl
    \/ skipForward /\ UNCHANGED vars_but_pl
    \/ handleSeek /\ UNCHANGED vars_but_pl

\* EpisodePlayer: the handlers of Playbar (the speed popover apart), of the
\* script viewer and of the slideshow.
NextEpisode ==
    \/ \E index \in SlideIndexes : handleLockToggle(index) /\ UNCHANGED vars_but_pl
    \/ \E index \in SlideIndexes : handleSlideClick(index) /\ UNCHANGED vars_but_pl
    \/ \E i \in DOMAIN pl_scripts : handleTurnClick(i) /\ UNCHANGED vars_but_pl
    \/ togglePlay /\ UNCHANGED vars_but_pl
    \/ toggleLoop /\ UNCHANGED vars_but_pl
    \/ AudioAdvances /\ UNCHANGED vars_but_pl
    \/ AudioEnded /\ UNCHANGED vars_but_pl
    \/ AudioTimeUpdate /\ UNCHANGED vars_but_pl
    \/ skipBackward /\ UNCHANGED vars_but_pl
    \/ skipForward /\ UNCHANGED vars_but_pl
    \/ handleSeek /\ UNCHANGED vars_but_pl

(***************************************************************************)
(* Part 8. Expert subgraph, extract: JSON parsing + sources normalization  *)
(***************************************************************************)

\* Bound: the most sources an expert cites in one judgment.
MaxCited == 2

\* A source as the expert cites it: its type, its identifying fields (pk, id,
\* accession number, or ticker and date range) written as one key, and its
\* title.
DebateSource(type, key, title) == [type |-> type, key |-> key, title |-> title]

\* The sources load_context may offer to the experts of one debate.
ContextSources ==
    { DebateSource("article", "id#1", "t1"),
      DebateSource("article", "id#2", "t2"),
      DebateSource("chart", "GOOG", ""),
      DebateSource("sec_filing", "0001", "10-K") }

\* What an expert may cite: an offered source as it is, an offered source
\* with its title reworded, a source that was never offered, and the key of
\* an offered source under another type.
CitedSources ==
    ContextSources
    \cup { DebateSource("article", "id#1", "reworded"),
           DebateSource("article", "id#9", "t9"),
           DebateSource("event", "id#2", "t2") }

\* _canonical_source: the identity of a source, its type and identifying
\* fields, whatever the other fields say.
canonical_source(s) == [type |-> s.type, key |-> s.key]

Matches(s, allowed) ==
    \E a \in allowed : canonical_source(a) = canonical_source(s)

\* The allowed source a cited source stands for.
AllowedMatch(s, allowed) ==
    CHOOSE a \in allowed : canonical_source(a) = canonical_source(s)

keep_cited_sources(cited, allowed) == cited

\* _normalize_sources: the cited sources are matched against allowed_sources
\* by their canonical identity; a match is recorded as the allowed source, a
\* source without a match is dropped.
RECURSIVE normalize_sources(_, _)
normalize_sources(cited, allowed) ==
    IF cited = <<>> THEN <<>>
    ELSE IF Matches(Head(cited), allowed)
         THEN <<AllowedMatch(Head(cited), allowed)>>
              \o normalize_sources(Tail(cited), allowed)
         ELSE normalize_sources(Tail(cited), allowed)

\* extract: the expert's final JSON is parsed and its sources normalized.
extract ==
    /\ ex_pc = "final"
    /\ ex_sources' = normalize_sources(ex_cited, ex_allowed)
    /\ ex_pc' = "extracted"
    /\ UNCHANGED <<ex_allowed, ex_cited>>

NextExtract ==
    \/ extract /\ UNCHANGED vars_but_ex

(***************************************************************************)
(* Part 9. Stage worker (OpeningAgent graph): load_context_node ->         *)
(*         _prepare_initial_messages -> agent_node <-> ToolNode(TOOLS) ->  *)
(*         extract_script_node -> END                                      *)
(***************************************************************************)

\* Bounds: the LLM calls that are counted (the count stays at the bound
\* when the loop goes on), and the tool calls of one AIMessage.
MaxWorkerCalls == 3
MaxToolCalls == 2

\* A JSON object with the keys the worker reads: a key that is absent is
\* <<>>, a key that is present is <<its value>>.
Dict(scripts, nutshell) == [scripts |-> scripts, nutshell |-> nutshell]

\* {} in Python: the dict without keys.
EmptyDict == Dict(<<>>, <<>>)

\* dict.get(key, default)
Get(d, key, default) == IF d[key] = <<>> THEN default ELSE d[key][1]

\* A piece of text read as JSON: an object, or no JSON at all; "none" is the
\* fenced block of a text that has none.
Json(value) == [kind |-> "json", value |-> value]
NotJson == [kind |-> "text", value |-> EmptyDict]
NoFence == [kind |-> "none", value |-> EmptyDict]

\* The JSON objects a final answer may hold: scripts of 0..MaxStageTurns
\* turns, or an object without "scripts".
AnswerObjects ==
    {Dict(<<StageTurns(BaseText, n)>>, <<Nutshell>>) : n \in 0..MaxStageTurns}
    \cup {Dict(<<>>, <<Nutshell>>)}

\* The content of the last AIMessage: the body of its ```json fenced block
\* if it has one, and the whole text read as JSON. A text with a fenced
\* block is no JSON as a whole.
FinalContents ==
    {[fence |-> Json(o), whole |-> NotJson] : o \in AnswerObjects}
    \cup {[fence |-> NoFence, whole |-> Json(o)] : o \in AnswerObjects}
    \cup {[fence |-> NotJson, whole |-> NotJson],
          [fence |-> NoFence, whole |-> NotJson]}

\* The text parse_json_from_response hands to the JSON parser.
json_text(content) ==
    IF content.fence.kind # "none" THEN content.fence ELSE content.whole

JSONDecodeError == [raised |-> "JSONDecodeError"]

parse_json_raising(content) ==
    IF json_text(content).kind = "json" THEN json_text(content).value
    ELSE JSONDecodeError

\* shared/normalization.parse_json_from_response(): the fenced block of the
\* response, or the whole text taken as JSON; {} when parsing fails.
parse_json_from_response(content) ==
    IF json_text(content).kind = "json" THEN json_text(content).value
    ELSE EmptyDict

\* The result of a worker whose answer held nothing.
EmptyWorkerResult == [scripts |-> <<>>, nutshell |-> ""]
NoWorkerResult == [scripts |-> <<>>, nutshell |-> "none"]
NoContent == [fence |-> NoFence, whole |-> NoFence]

\* An exception leaves the worker's graph.
WorkerRaises(error) ==
    /\ sw_pc' = "raised"
    /\ sw_error' = error
    /\ UNCHANGED <<sw_context, sw_calls, sw_tool_calls, sw_tool_outputs,
                   sw_content, sw_result>>

\* load_context_node, _prepare_initial_messages: market_context.json is read
\* from the cache and the messages are built; without the file the worker
\* fails at once.
load_context_node ==
    /\ sw_pc = "load_context"
    /\ IF sw_context
       THEN /\ sw_pc' = "agent"
            /\ UNCHANGED <<sw_context, sw_calls, sw_tool_calls,
                           sw_tool_outputs, sw_content, sw_result, sw_error>>
       ELSE WorkerRaises("FileNotFoundError")

\* The count of LLM calls, kept at the bound once it is reached: the loop
\* itself has no limit.
count_call(calls) ==
    IF calls < MaxWorkerCalls THEN calls + 1 ELSE MaxWorkerCalls

\* agent_node and its conditional edge: the LLM is called with the messages;
\* an AIMessage with tool_calls goes to ToolNode, one without goes to
\* extract_script_node.
agent_node ==
    /\ sw_pc = "agent"
    /\ \/ /\ \E n \in 1..MaxToolCalls : sw_tool_calls' = n
          /\ sw_calls' = count_call(sw_calls)
          /\ sw_pc' = "tools"
          /\ UNCHANGED <<sw_context, sw_tool_outputs, sw_content, sw_result,
                         sw_error>>
       \/ /\ \E content \in FinalContents : sw_content' = content
          /\ sw_calls' = count_call(sw_calls)
          /\ sw_tool_calls' = 0
          /\ sw_pc' = "extract"
          /\ UNCHANGED <<sw_context, sw_tool_outputs, sw_result, sw_error>>

\* An exception of a tool may stop the execution of the graph.
tool_error_may_abort == TRUE

\* ToolNode(TOOLS): every tool call of the AIMessage is executed and its
\* output is added to the messages. A tool that throws either gives an error
\* output that goes back to the model, or its exception ends the graph.
ToolNode ==
    /\ sw_pc = "tools"
    /\ \E outputs \in [1..sw_tool_calls -> {"result", "error"}] :
          \/ /\ sw_tool_outputs' = outputs
             /\ sw_pc' = "agent"
             /\ UNCHANGED <<sw_context, sw_calls, sw_tool_calls, sw_content,
                            sw_result, sw_error>>
          \/ /\ tool_error_may_abort
             /\ \E i \in DOMAIN outputs : outputs[i] = "error"
             /\ WorkerRaises("tool")

\* extract_script_node: the last AIMessage is parsed, its scripts are
\* normalized and the result is returned.
extract_script_node ==
    /\ sw_pc = "extract"
    /\ IF "raised" \in DOMAIN parse_json_from_response(sw_content)
       THEN WorkerRaises("JSONDecodeError")
       ELSE /\ sw_result' =
                  [scripts |-> normalize_script_turns(
                       Get(parse_json_from_response(sw_content), "scripts", <<>>)),
                   nutshell |->
                       Get(parse_json_from_response(sw_content), "nutshell", "")]
            /\ sw_pc' = "END"
            /\ UNCHANGED <<sw_context, sw_calls, sw_tool_calls,
                           sw_tool_outputs, sw_content, sw_error>>

NextWorker ==
    \/ load_context_node /\ UNCHANGED vars_but_sw
    \/ agent_node /\ UNCHANGED vars_but_sw
    \/ ToolNode /\ UNCHANGED vars_but_sw
    \/ extract_script_node /\ UNCHANGED vars_but_sw

(***************************************************************************)
(* Specifications: one per component, the other components at rest         *)
(***************************************************************************)

\* Every component starts in its state after construction; a specification
\* draws the inputs of its own component and leaves the others at rest.
InitNormalize ==
    /\ nz_pc = "input"
    /\ nz_input \in SeqUpTo(RawTurns, MaxTurns)
    /\ nz_output = <<>>
    /\ nz_again = <<>>
    /\ fo_pc = "batch"
    /\ fo_n = 0
    /\ fo_base = <<>>
    /\ fo_raw = <<>>
    /\ fo_order = <<>>
    /\ fo_results = <<>>
    /\ fo_scripts = <<>>
    /\ db_pc = "init"
    /\ db_max_rounds = min_rounds
    /\ db_rounds = <<>>
    /\ db_current = [r \in Roles |-> NoJudgment]
    /\ db_conclusion = NoConclusion
    /\ db_conclusions = 0
    /\ db_consensus_round = 0
    /\ rf_pc = "merged"
    /\ rf_scripts = <<>>
    /\ rf_edits = <<>>
    /\ rf_applied = <<>>
    /\ rf_result = <<>>
    /\ rf_attempts = 0
    /\ rf_outcome = "none"
    /\ or_pc = "cli"
    /\ or_mode = [kind |-> "stage", stage |-> 3, agent |-> "none"]
    /\ or_user_tickers = <<>>
    /\ or_scripts = <<>>
    /\ or_chapter = <<>>
    /\ or_ran = <<>>
    /\ or_temp = [a \in Artifacts |-> NoFile]
    /\ or_cache = "absent"
    /\ or_cleaned = {}
    /\ or_saved = NoFile
    /\ or_exit = -1
    /\ or_error = "none"
    /\ oh_pc = "called"
    /\ oh_download = [row_count |-> 0, columns_ok |-> TRUE]
    /\ oh_response = NoResponse
    /\ pl_rate = InitialPlaybackRate
    /\ pl_rate_before = InitialPlaybackRate
    /\ pl_control = "none"
    /\ pl_audio_time = 0
    /\ pl_current_time = 0
    /\ pl_is_playing = FALSE
    /\ pl_clicked = 0
    /\ pl_scripts = EpisodeScripts(TurnStarts)
    /\ pl_audio_ok = TRUE
    /\ pl_audio_paused = TRUE
    /\ pl_loop = FALSE
    /\ pl_end_task = FALSE
    /\ pl_locked = NoLock
    /\ pl_scrolled = 0
    /\ pl_slide_clicked = NoSlide
    /\ ex_pc = "final"
    /\ ex_allowed = {}
    /\ ex_cited = <<>>
    /\ ex_sources = <<>>
    /\ sw_pc = "load_context"
    /\ sw_context = TRUE
    /\ sw_calls = 0
    /\ sw_tool_calls = 0
    /\ sw_tool_outputs = <<>>
    /\ sw_content = NoContent
    /\ sw_result = NoWorkerResult
    /\ sw_error = "none"

InitFanOut ==
    /\ nz_pc = "input"
    /\ nz_input = <<>>
    /\ nz_output = <<>>
    /\ nz_again = <<>>
    /\ fo_pc = "batch"
    /\ fo_n \in 0..MaxItems
    /\ fo_base \in {BaseScripts(k) : k \in 0..MaxBase}
    /\ fo_raw = [i \in 1..fo_n |-> Pending]
    /\ fo_order = <<>>
    /\ fo_results = <<>>
    /\ fo_scripts = <<>>
    /\ db_pc = "init"
    /\ db_max_rounds = min_rounds
    /\ db_rounds = <<>>
    /\ db_current = [r \in Roles |-> NoJudgment]
    /\ db_conclusion = NoConclusion
    /\ db_conclusions = 0
    /\ db_consensus_round = 0
    /\ rf_pc = "merged"
    /\ rf_scripts = <<>>
    /\ rf_edits = <<>>
    /\ rf_applied = <<>>
    /\ rf_result = <<>>
    /\ rf_attempts = 0
    /\ rf_outcome = "none"
    /\ or_pc = "cli"
    /\ or_mode = [kind |-> "stage", stage |-> 3, agent |-> "none"]
    /\ or_user_tickers = <<>>
    /\ or_scripts = <<>>
    /\ or_chapter = <<>>
    /\ or_ran = <<>>
    /\ or_temp = [a \in Artifacts |-> NoFile]
    /\ or_cache = "absent"
    /\ or_cleaned = {}
    /\ or_saved = NoFile
    /\ or_exit = -1
    /\ or_error = "none"
    /\ oh_pc = "called"
    /\ oh_download = [row_count |-> 0, columns_ok |-> TRUE]
    /\ oh_response = NoResponse
    /\ pl_rate = InitialPlaybackRate
    /\ pl_rate_before = InitialPlaybackRate
    /\ pl_control = "none"
    /\ pl_audio_time = 0
    /\ pl_current_time = 0
    /\ pl_is_playing = FALSE
    /\ pl_clicked = 0
    /\ pl_scripts = EpisodeScripts(TurnStarts)
    /\ pl_audio_ok = TRUE
    /\ pl_audio_paused = TRUE
    /\ pl_loop = FALSE
    /\ pl_end_task = FALSE
    /\ pl_locked = NoLock
    /\ pl_scrolled = 0
    /\ pl_slide_clicked = NoSlide
    /\ ex_pc = "final"
    /\ ex_allowed = {}
    /\ ex_cited = <<>>
    /\ ex_sources = <<>>
    /\ sw_pc = "load_context"
    /\ sw_context = TRUE
    /\ sw_calls = 0
    /\ sw_tool_calls = 0
    /\ sw_tool_outputs = <<>>
    /\ sw_content = NoContent
    /\ sw_result = NoWorkerResult
    /\ sw_error = "none"

InitDebate ==
    /\ nz_pc = "input"
    /\ nz_input = <<>>
    /\ nz_output = <<>>
    /\ nz_again = <<>>
    /\ fo_pc = "batch"
    /\ fo_n = 0
    /\ fo_base = <<>>
    /\ fo_raw = <<>>
    /\ fo_order = <<>>
    /\ fo_results = <<>>
    /\ fo_scripts = <<>>
    /\ db_pc = "init"
    /\ db_max_rounds \in min_rounds..MaxRoundsBound
    /\ db_rounds = <<>>
    /\ db_current = [r \in Roles |-> NoJudgment]
    /\ db_conclusion = NoConclusion
    /\ db_conclusions = 0
    /\ db_consensus_round = 0
    /\ rf_pc = "merged"
    /\ rf_scripts = <<>>
    /\ rf_edits = <<>>
    /\ rf_applied = <<>>
    /\ rf_result = <<>>
    /\ rf_attempts = 0
    /\ rf_outcome = "none"
    /\ or_pc = "cli"
    /\ or_mode = [kind |-> "stage", stage |-> 3, agent |-> "none"]
    /\ or_user_tickers = <<>>
    /\ or_scripts = <<>>
    /\ or_chapter = <<>>
    /\ or_ran = <<>>
    /\ or_temp = [a \in Artifacts |-> NoFile]
    /\ or_cache = "absent"
    /\ or_cleaned = {}
    /\ or_saved = NoFile
    /\ or_exit = -1
    /\ or_error = "none"
    /\ oh_pc = "called"
    /\ oh_download = [row_count |-> 0, columns_ok |-> TRUE]
    /\ oh_response = NoResponse
    /\ pl_rate = InitialPlaybackRate
    /\ pl_rate_before = InitialPlaybackRate
    /\ pl_control = "none"
    /\ pl_audio_time = 0
    /\ pl_current_time = 0
    /\ pl_is_playing = FALSE
    /\ pl_clicked = 0
    /\ pl_scripts = EpisodeScripts(TurnStarts)
    /\ pl_audio_ok = TRUE
    /\ pl_audio_paused = TRUE
    /\ pl_loop = FALSE
    /\ pl_end_task = FALSE
    /\ pl_locked = NoLock
    /\ pl_scrolled = 0
    /\ pl_slide_clicked = NoSlide
    /\ ex_pc = "final"
    /\ ex_allowed = {}
    /\ ex_cited = <<>>
    /\ ex_sources = <<>>
    /\ sw_pc = "load_context"
    /\ sw_context = TRUE
    /\ sw_calls = 0
    /\ sw_tool_calls = 0
    /\ sw_tool_outputs = <<>>
    /\ sw_content = NoContent
    /\ sw_result = NoWorkerResult
    /\ sw_error = "none"

InitRefine ==
    /\ nz_pc = "input"
    /\ nz_input = <<>>
    /\ nz_output = <<>>
    /\ nz_again = <<>>
    /\ fo_pc = "batch"
    /\ fo_n = 0
    /\ fo_base = <<>>
    /\ fo_raw = <<>>
    /\ fo_order = <<>>
    /\ fo_results = <<>>
    /\ fo_scripts = <<>>
    /\ db_pc = "init"
    /\ db_max_rounds = min_rounds
    /\ db_rounds = <<>>
    /\ db_current = [r \in Roles |-> NoJudgment]
    /\ db_conclusion = NoConclusion
    /\ db_conclusions = 0
    /\ db_consensus_round = 0
    /\ rf_pc = "merged"
    /\ rf_scripts \in {MergedScripts(k) : k \in 0..MaxRefineTurns}
    /\ rf_edits = <<>>
    /\ rf_applied = <<>>
    /\ rf_result = <<>>
    /\ rf_attempts = 0
    /\ rf_outcome = "none"
    /\ or_pc = "cli"
    /\ or_mode = [kind |-> "stage", stage |-> 3, agent |-> "none"]
    /\ or_user_tickers = <<>>
    /\ or_scripts = <<>>
    /\ or_chapter = <<>>
    /\ or_ran = <<>>
    /\ or_temp = [a \in Artifacts |-> NoFile]
    /\ or_cache = "absent"
    /\ or_cleaned = {}
    /\ or_saved = NoFile
    /\ or_exit = -1
    /\ or_error = "none"
    /\ oh_pc = "called"
    /\ oh_download = [row_count |-> 0, columns_ok |-> TRUE]
    /\ oh_response = NoResponse
    /\ pl_rate = InitialPlaybackRate
    /\ pl_rate_before = InitialPlaybackRate
    /\ pl_control = "none"
    /\ pl_audio_time = 0
    /\ pl_current_time = 0
    /\ pl_is_playing = FALSE
    /\ pl_clicked = 0
    /\ pl_scripts = EpisodeScripts(TurnStarts)
    /\ pl_audio_ok = TRUE
    /\ pl_audio_paused = TRUE
    /\ pl_loop = FALSE
    /\ pl_end_task = FALSE
    /\ pl_locked = NoLock
    /\ pl_scrolled = 0
    /\ pl_slide_clicked = NoSlide
    /\ ex_pc = "final"
    /\ ex_allowed = {}
    /\ ex_cited = <<>>
    /\ ex_sources = <<>>
    /\ sw_pc = "load_context"
    /\ sw_context = TRUE
    /\ sw_calls = 0
    /\ sw_tool_calls = 0
    /\ sw_tool_outputs = <<>>
    /\ sw_content = NoContent
    /\ sw_result = NoWorkerResult
    /\ sw_error = "none"

InitOrchestrator ==
    /\ nz_pc = "input"
    /\ nz_input = <<>>
    /\ nz_output = <<>>
    /\ nz_again = <<>>
    /\ fo_pc = "batch"
    /\ fo_n = 0
    /\ fo_base = <<>>
    /\ fo_raw = <<>>
    /\ fo_order = <<>>
    /\ fo_results = <<>>
    /\ fo_scripts = <<>>
    /\ db_pc = "init"
    /\ db_max_rounds = min_rounds
    /\ db_rounds = <<>>
    /\ db_current = [r \in Roles |-> NoJudgment]
    /\ db_conclusion = NoConclusion
    /\ db_conclusions = 0
    /\ db_consensus_round = 0
    /\ rf_pc = "merged"
    /\ rf_scripts = <<>>
    /\ rf_edits = <<>>
    /\ rf_applied = <<>>
    /\ rf_result = <<>>
    /\ rf_attempts = 0
    /\ rf_outcome = "none"
    /\ or_pc = "cli"
    /\ or_mode \in RunModes
    /\ or_user_tickers \in {SubSeq(TICKERS, 1, n) : n \in 0..MaxTickers}
    /\ or_scripts = <<>>
    /\ or_chapter = <<>>
    /\ or_ran = <<>>
    /\ or_temp \in TempStates
    /\ or_cache = "absent"
    /\ or_cleaned = {}
    /\ or_saved = NoFile
    /\ or_exit = -1
    /\ or_error = "none"
    /\ oh_pc = "called"
    /\ oh_download = [row_count |-> 0, columns_ok |-> TRUE]
    /\ oh_response = NoResponse
    /\ pl_rate = InitialPlaybackRate
    /\ pl_rate_before = InitialPlaybackRate
    /\ pl_control = "none"
    /\ pl_audio_time = 0
    /\ pl_current_time = 0
    /\ pl_is_playing = FALSE
    /\ pl_clicked = 0
    /\ pl_scripts = EpisodeScripts(TurnStarts)
    /\ pl_audio_ok = TRUE
    /\ pl_audio_paused = TRUE
    /\ pl_loop = FALSE
    /\ pl_end_task = FALSE
    /\ pl_locked = NoLock
    /\ pl_scrolled = 0
    /\ pl_slide_clicked = NoSlide
    /\ ex_pc = "final"
    /\ ex_allowed = {}
    /\ ex_cited = <<>>
    /\ ex_sources = <<>>
    /\ sw_pc = "load_context"
    /\ sw_context = TRUE
    /\ sw_calls = 0
    /\ sw_tool_calls = 0
    /\ sw_tool_outputs = <<>>
    /\ sw_content = NoContent
    /\ sw_result = NoWorkerResult
    /\ sw_error = "none"

InitOhlcv ==
    /\ nz_pc = "input"
    /\ nz_input = <<>>
    /\ nz_output = <<>>
    /\ nz_again = <<>>
    /\ fo_pc = "batch"
    /\ fo_n = 0
    /\ fo_base = <<>>
    /\ fo_raw = <<>>
    /\ fo_order = <<>>
    /\ fo_results = <<>>
    /\ fo_scripts = <<>>
    /\ db_pc = "init"
    /\ db_max_rounds = min_rounds
    /\ db_rounds = <<>>
    /\ db_current = [r \in Roles |-> NoJudgment]
    /\ db_conclusion = NoConclusion
    /\ db_conclusions = 0
    /\ db_consensus_round = 0
    /\ rf_pc = "merged"
    /\ rf_scripts = <<>>
    /\ rf_edits = <<>>
    /\ rf_applied = <<>>
    /\ rf_result = <<>>
    /\ rf_attempts = 0
    /\ rf_outcome = "none"
    /\ or_pc = "cli"
    /\ or_mode = [kind |-> "stage", stage |-> 3, agent |-> "none"]
    /\ or_user_tickers = <<>>
    /\ or_scripts = <<>>
    /\ or_chapter = <<>>
    /\ or_ran = <<>>
    /\ or_temp = [a \in Artifacts |-> NoFile]
    /\ or_cache = "absent"
    /\ or_cleaned = {}
    /\ or_saved = NoFile
    /\ or_exit = -1
    /\ or_error = "none"
    /\ oh_pc = "called"
    /\ oh_download \in Downloads
    /\ oh_response = NoResponse
    /\ pl_rate = InitialPlaybackRate
    /\ pl_rate_before = InitialPlaybackRate
    /\ pl_control = "none"
    /\ pl_audio_time = 0
    /\ pl_current_time = 0
    /\ pl_is_playing = FALSE
    /\ pl_clicked = 0
    /\ pl_scripts = EpisodeScripts(TurnStarts)
    /\ pl_audio_ok = TRUE
    /\ pl_audio_paused = TRUE
    /\ pl_loop = FALSE
    /\ pl_end_task = FALSE
    /\ pl_locked = NoLock
    /\ pl_scrolled = 0
    /\ pl_slide_clicked = NoSlide
    /\ ex_pc = "final"
    /\ ex_allowed = {}
    /\ ex_cited = <<>>
    /\ ex_sources = <<>>
    /\ sw_pc = "load_context"
    /\ sw_context = TRUE
    /\ sw_calls = 0
    /\ sw_tool_calls = 0
    /\ sw_tool_outputs = <<>>
    /\ sw_content = NoContent
    /\ sw_result = NoWorkerResult
    /\ sw_error = "none"

InitPlayer ==
    /\ nz_pc = "input"
    /\ nz_input = <<>>
    /\ nz_output = <<>>
    /\ nz_again = <<>>
    /\ fo_pc = "batch"
    /\ fo_n = 0
    /\ fo_base = <<>>
    /\ fo_raw = <<>>
    /\ fo_order = <<>>
    /\ fo_results = <<>>
    /\ fo_scripts = <<>>
    /\ db_pc = "init"
    /\ db_max_rounds = min_rounds
    /\ db_rounds = <<>>
    /\ db_current = [r \in Roles |-> NoJudgment]
    /\ db_conclusion = NoConclusion
    /\ db_conclusions = 0
    /\ db_consensus_round = 0
    /\ rf_pc = "merged"
    /\ rf_scripts = <<>>
    /\ rf_edits = <<>>
    /\ rf_applied = <<>>
    /\ rf_result = <<>>
    /\ rf_attempts = 0
    /\ rf_outcome = "none"
    /\ or_pc = "cli"
    /\ or_mode = [kind |-> "stage", stage |-> 3, agent |-> "none"]
    /\ or_user_tickers = <<>>
    /\ or_scripts = <<>>
    /\ or_chapter = <<>>
    /\ or_ran = <<>>
    /\ or_temp = [a \in Artifacts |-> NoFile]
    /\ or_cache = "absent"
    /\ or_cleaned = {}
    /\ or_saved = NoFile
    /\ or_exit = -1
    /\ or_error = "none"
    /\ oh_pc = "called"
    /\ oh_download = [row_count |-> 0, columns_ok |-> TRUE]
    /\ oh_response = NoResponse
    /\ pl_rate = InitialPlaybackRate
    /\ pl_rate_before = InitialPlaybackRate
    /\ pl_control = "none"
    /\ pl_audio_time = 0
    /\ pl_current_time = 0
    /\ pl_is_playing = FALSE
    /\ pl_clicked = 0
    /\ pl_scripts = EpisodeScripts(TurnStarts)
    /\ pl_audio_ok = TRUE
    /\ pl_audio_paused = TRUE
    /\ pl_loop = FALSE
    /\ pl_end_task = FALSE
    /\ pl_locked = NoLock
    /\ pl_scrolled = 0
    /\ pl_slide_clicked = NoSlide
    /\ ex_pc = "final"
    /\ ex_allowed = {}
    /\ ex_cited = <<>>
    /\ ex_sources = <<>>
    /\ sw_pc = "load_context"
    /\ sw_context = TRUE
    /\ sw_calls = 0
    /\ sw_tool_calls = 0
    /\ sw_tool_outputs = <<>>
    /\ sw_content = NoContent
    /\ sw_result = NoWorkerResult
    /\ sw_error = "none"

InitExtract ==
    /\ nz_pc = "input"
    /\ nz_input = <<>>
    /\ nz_output = <<>>
    /\ nz_again = <<>>
    /\ fo_pc = "batch"
    /\ fo_n = 0
    /\ fo_base = <<>>
    /\ fo_raw = <<>>
    /\ fo_order = <<>>
    /\ fo_results = <<>>
    /\ fo_scripts = <<>>
    /\ db_pc = "init"
    /\ db_max_rounds = min_rounds
    /\ db_rounds = <<>>
    /\ db_current = [r \in Roles |-> NoJudgment]
    /\ db_conclusion = NoConclusion
    /\ db_conclusions = 0
    /\ db_consensus_round = 0
    /\ rf_pc = "merged"
    /\ rf_scripts = <<>>
    /\ rf_edits = <<>>
    /\ rf_applied = <<>>
    /\ rf_result = <<>>
    /\ rf_attempts = 0
    /\ rf_outcome = "none"
    /\ or_pc = "cli"
    /\ or_mode = [kind |-> "stage", stage |-> 3, agent |-> "none"]
    /\ or_user_tickers = <<>>
    /\ or_scripts = <<>>
    /\ or_chapter = <<>>
    /\ or_ran = <<>>
    /\ or_temp = [a \in Artifacts |-> NoFile]
    /\ or_cache = "absent"
    /\ or_cleaned = {}
    /\ or_saved = NoFile
    /\ or_exit = -1
    /\ or_error = "none"
    /\ oh_pc = "called"
    /\ oh_download = [row_count |-> 0, columns_ok |-> TRUE]
    /\ oh_response = NoResponse
    /\ pl_rate = InitialPlaybackRate
    /\ pl_rate_before = InitialPlaybackRate
    /\ pl_control = "none"
    /\ pl_audio_time = 0
    /\ pl_current_time = 0
    /\ pl_is_playing = FALSE
    /\ pl_clicked = 0
    /\ pl_scripts = EpisodeScripts(TurnStarts)
    /\ pl_audio_ok = TRUE
    /\ pl_audio_paused = TRUE
    /\ pl_loop = FALSE
    /\ pl_end_task = FALSE
    /\ pl_locked = NoLock
    /\ pl_scrolled = 0
    /\ pl_slide_clicked = NoSlide
    /\ ex_pc = "final"
    /\ ex_allowed \in SUBSET ContextSources
    /\ ex_cited \in SeqUpTo(CitedSources, MaxCited)
    /\ ex_sources = <<>>
    /\ sw_pc = "load_context"
    /\ sw_context = TRUE
    /\ sw_calls = 0
    /\ sw_tool_calls = 0
    /\ sw_tool_outputs = <<>>
    /\ sw_content = NoContent
    /\ sw_result = NoWorkerResult
    /\ sw_error = "none"

InitDebateFaulty ==
    /\ nz_pc = "input"
    /\ nz_input = <<>>
    /\ nz_output = <<>>
    /\ nz_again = <<>>
    /\ fo_pc = "batch"
    /\ fo_n = 0
    /\ fo_base = <<>>
    /\ fo_raw = <<>>
    /\ fo_order = <<>>
    /\ fo_results = <<>>
    /\ fo_scripts = <<>>
    /\ db_pc = "init"
    /\ db_max_rounds \in min_rounds..(min_rounds + 1)
    /\ db_rounds = <<>>
    /\ db_current = [r \in Roles |-> NoJudgment]
    /\ db_conclusion = NoConclusion
    /\ db_conclusions = 0
    /\ db_consensus_round = 0
    /\ rf_pc = "merged"
    /\ rf_scripts = <<>>
    /\ rf_edits = <<>>
    /\ rf_applied = <<>>
    /\ rf_result = <<>>
    /\ rf_attempts = 0
    /\ rf_outcome = "none"
    /\ or_pc = "cli"
    /\ or_mode = [kind |-> "stage", stage |-> 3, agent |-> "none"]
    /\ or_user_tickers = <<>>
    /\ or_scripts = <<>>
    /\ or_chapter = <<>>
    /\ or_ran = <<>>
    /\ or_temp = [a \in Artifacts |-> NoFile]
    /\ or_cache = "absent"
    /\ or_cleaned = {}
    /\ or_saved = NoFile
    /\ or_exit = -1
    /\ or_error = "none"
    /\ oh_pc = "called"
    /\ oh_download = [row_count |-> 0, columns_ok |-> TRUE]
    /\ oh_response = NoResponse
    /\ pl_rate = InitialPlaybackRate
    /\ pl_rate_before = InitialPlaybackRate
    /\ pl_control = "none"
    /\ pl_audio_time = 0
    /\ pl_current_time = 0
    /\ pl_is_playing = FALSE
    /\ pl_clicked = 0
    /\ pl_scripts = EpisodeScripts(TurnStarts)
    /\ pl_audio_ok = TRUE
    /\ pl_audio_paused = TRUE
    /\ pl_loop = FALSE
    /\ pl_end_task = FALSE
    /\ pl_locked = NoLock
    /\ pl_scrolled = 0
    /\ pl_slide_clicked = NoSlide
    /\ ex_pc = "final"
    /\ ex_allowed = {}
    /\ ex_cited = <<>>
    /\ ex_sources = <<>>
    /\ sw_pc = "load_context"
    /\ sw_context = TRUE
    /\ sw_calls = 0
    /\ sw_tool_calls = 0
    /\ sw_tool_outputs = <<>>
    /\ sw_content = NoContent
    /\ sw_result = NoWorkerResult
    /\ sw_error = "none"

InitWorker ==
    /\ nz_pc = "input"
    /\ nz_input = <<>>
    /\ nz_output = <<>>
    /\ nz_again = <<>>
    /\ fo_pc = "batch"
    /\ fo_n = 0
    /\ fo_base = <<>>
    /\ fo_raw = <<>>
    /\ fo_order = <<>>
    /\ fo_results = <<>>
    /\ fo_scripts = <<>>
    /\ db_pc = "init"
    /\ db_max_rounds = min_rounds
    /\ db_rounds = <<>>
    /\ db_current = [r \in Roles |-> NoJudgment]
    /\ db_conclusion = NoConclusion
    /\ db_conclusions = 0
    /\ db_consensus_round = 0
    /\ rf_pc = "merged"
    /\ rf_scripts = <<>>
    /\ rf_edits = <<>>
    /\ rf_applied = <<>>
    /\ rf_result = <<>>
    /\ rf_attempts = 0
    /\ rf_outcome = "none"
    /\ or_pc = "cli"
    /\ or_mode = [kind |-> "stage", stage |-> 3, agent |-> "none"]
    /\ or_user_tickers = <<>>
    /\ or_scripts = <<>>
    /\ or_chapter = <<>>
    /\ or_ran = <<>>
    /\ or_temp = [a \in Artifacts |-> NoFile]
    /\ or_cache = "absent"
    /\ or_cleaned = {}
    /\ or_saved = NoFile
    /\ or_exit = -1
    /\ or_error = "none"
    /\ oh_pc = "called"
    /\ oh_download = [row_count |-> 0, columns_ok |-> TRUE]
    /\ oh_response = NoResponse
    /\ pl_rate = InitialPlaybackRate
    /\ pl_rate_before = InitialPlaybackRate
    /\ pl_control = "none"
    /\ pl_audio_time = 0
    /\ pl_current_time = 0
    /\ pl_is_playing = FALSE
    /\ pl_clicked = 0
    /\ pl_scripts = EpisodeScripts(TurnStarts)
    /\ pl_audio_ok = TRUE
    /\ pl_audio_paused = TRUE
    /\ pl_loop = FALSE
    /\ pl_end_task = FALSE
    /\ pl_locked = NoLock
    /\ pl_scrolled = 0
    /\ pl_slide_clicked = NoSlide
    /\ ex_pc = "final"
    /\ ex_allowed = {}
    /\ ex_cited = <<>>
    /\ ex_sources = <<>>
    /\ sw_pc = "load_context"
    /\ sw_context \in BOOLEAN
    /\ sw_calls = 0
    /\ sw_tool_calls = 0
    /\ sw_tool_outputs = <<>>
    /\ sw_content = NoContent
    /\ sw_result = NoWorkerResult
    /\ sw_error = "none"

InitEpisode ==
    /\ nz_pc = "input"
    /\ nz_input = <<>>
    /\ nz_output = <<>>
    /\ nz_again = <<>>
    /\ fo_pc = "batch"
    /\ fo_n = 0
    /\ fo_base = <<>>
    /\ fo_raw = <<>>
    /\ fo_order = <<>>
    /\ fo_results = <<>>
    /\ fo_scripts = <<>>
    /\ db_pc = "init"
    /\ db_max_rounds = min_rounds
    /\ db_rounds = <<>>
    /\ db_current = [r \in Roles |-> NoJudgment]
    /\ db_conclusion = NoConclusion
    /\ db_conclusions = 0
    /\ db_consensus_round = 0
    /\ rf_pc = "merged"
    /\ rf_scripts = <<>>
    /\ rf_edits = <<>>
    /\ rf_applied = <<>>
    /\ rf_result = <<>>
    /\ rf_attempts = 0
    /\ rf_outcome = "none"
    /\ or_pc = "cli"
    /\ or_mode = [kind |-> "stage", stage |-> 3, agent |-> "none"]
    /\ or_user_tickers = <<>>
    /\ or_scripts = <<>>
    /\ or_chapter = <<>>
    /\ or_ran = <<>>
    /\ or_temp = [a \in Artifacts |-> NoFile]
    /\ or_cache = "absent"
    /\ or_cleaned = {}
    /\ or_saved = NoFile
    /\ or_exit = -1
    /\ or_error = "none"
    /\ oh_pc = "called"
    /\ oh_download = [row_count |-> 0, columns_ok |-> TRUE]
    /\ oh_response = NoResponse
    /\ pl_rate = InitialPlaybackRate
    /\ pl_rate_before = InitialPlaybackRate
    /\ pl_control = "none"
    /\ pl_audio_time = 0
    /\ pl_current_time = 0
    /\ pl_is_playing = FALSE
    /\ pl_clicked = 0
    /\ pl_scripts \in Episodes
    /\ pl_audio_ok \in BOOLEAN
    /\ pl_audio_paused = TRUE
    /\ pl_loop = FALSE
    /\ pl_end_task = FALSE
    /\ pl_locked = NoLock
    /\ pl_scrolled = 0
    /\ pl_slide_clicked = NoSlide
    /\ ex_pc = "final"
    /\ ex_allowed = {}
    /\ ex_cited = <<>>
    /\ ex_sources = <<>>
    /\ sw_pc = "load_context"
    /\ sw_context = TRUE
    /\ sw_calls = 0
    /\ sw_tool_calls = 0
    /\ sw_tool_outputs = <<>>
    /\ sw_content = NoContent
    /\ sw_result = NoWorkerResult
    /\ sw_error = "none"

SpecNormalize == InitNormalize /\ [][NextNormalize]_vars

SpecFanOut == InitFanOut /\ [][NextFanOut]_vars

SpecDebate == InitDebate /\ [][NextDebate]_vars

SpecDebateFaulty == InitDebateFaulty /\ [][NextDebateFaulty]_vars

SpecRefine == InitRefine /\ [][NextRefine]_vars

SpecOrchestrator == InitOrchestrator /\ [][NextOrchestrator]_vars

SpecOhlcv == InitOhlcv /\ [][NextOhlcv]_vars

SpecPlayer == InitPlayer /\ [][NextPlayer]_vars

SpecEpisode == InitEpisode /\ [][NextEpisode]_vars

SpecExtract == InitExtract /\ [][NextExtract]_vars

SpecWorker == InitWorker /\ [][NextWorker]_vars

\* The graph runtime runs a node whenever one is scheduled: no run stops
\* between two nodes.
SpecWorkerFair == SpecWorker /\ WF_vars(NextWorker)

(***************************************************************************)
(* Properties                                                              *)
(***************************************************************************)

SubmissionIndex(turn) ==
    IF turn.text = BaseText THEN 0
    ELSE CHOOSE i \in 1..Len(ItemTexts) : ItemTexts[i] = turn.text

\* C2: whatever order the workers complete in, the result list holds at
\* index i the turns of item i, and the merged script holds the base turns and
\* then the items' turns in submission order.
FanOutOrderAligned ==
    /\ fo_pc \in {"collected", "merged"} =>
          \A i \in DOMAIN fo_results : \A k \in DOMAIN fo_results[i] :
              fo_results[i][k].text = ItemTexts[i]
    /\ fo_pc = "merged" =>
          \A p, q \in DOMAIN fo_scripts :
              p < q => SubmissionIndex(fo_scripts[p]) <= SubmissionIndex(fo_scripts[q])

\* The workers completed in another order than they were submitted in, every
\* one of them returned turns, and the script is merged.
FanOutOrderAlignedWitness ==
    /\ fo_pc = "merged"
    /\ fo_n >= 2
    /\ fo_order[1] = fo_n
    /\ \A i \in 1..fo_n : fo_raw[i].status = "ok"
    /\ Len(fo_scripts) > fo_n

\* C3: whatever ids the input turns carry, the ids of the output of
\* normalize_script_turns are 0, 1, ..., len(output)-1 in list order.
NormalizeDenseIds ==
    /\ nz_pc # "input" =>
          \A i \in DOMAIN nz_output : nz_output[i].id = i - 1
    /\ nz_pc = "renormalized" =>
          \A i \in DOMAIN nz_again : nz_again[i].id = i - 1

\* An input whose first turn is dropped and whose second turn, carrying an
\* arbitrary id, is kept.
NormalizeDenseIdsWitness ==
    /\ nz_pc = "normalized"
    /\ Len(nz_input) = 2
    /\ nz_input[1].speaker = "guest"
    /\ nz_input[2].id = 7
    /\ Len(nz_output) = 1

\* C4: normalize_script_turns is idempotent: normalizing its own output
\* changes no id and drops no turn.
NormalizeIdempotent ==
    nz_pc = "renormalized" => nz_again = nz_output

\* The second normalization ran on an output that lost a turn and some
\* sources in the first one.
NormalizeIdempotentWitness ==
    /\ nz_pc = "renormalized"
    /\ Len(nz_input) = 2
    /\ Len(nz_output) = 1
    /\ nz_input[1].text = ""
    /\ nz_input[2].sources = <<ArticleNoTitle, GoodChart>>
    /\ nz_again # <<>>

\* The input turns that carry at least one valid source.
TurnsWithValidSource(raw) ==
    {i \in DOMAIN raw : \E k \in DOMAIN raw[i].sources : ValidSource(raw[i].sources[k])}

UnanimousAndConfident(n) ==
    /\ \A r \in Roles :
          db_rounds[n].judgments[r].action = db_rounds[n].judgments["fundamental"].action
    /\ \A r \in Roles :
          db_rounds[n].judgments[r].confidence >= DEBATE_CONSENSUS_CONFIDENCE

\* C6: a debate that has terminated has at least 2 completed rounds, also
\* when the experts agreed with enough confidence in round 1.
DebateAtLeastTwoRounds ==
    db_pc = "end" => Len(db_rounds) >= 2

\* A debate has terminated whose round 1 was already unanimous and confident.
DebateAtLeastTwoRoundsWitness ==
    /\ db_pc = "end"
    /\ UnanimousAndConfident(1)

\* The moderator has given its verdict on round n.
Reviewed(n) ==
    \/ n < Len(db_rounds)
    \/ n = Len(db_rounds) /\ db_pc \in {"run_round", "end"}

DebateOneConclusionAtEnd ==
    /\ db_pc # "end" => (db_conclusion = NoConclusion /\ db_conclusions = 0)
    /\ db_pc = "end" => (db_conclusion # NoConclusion /\ db_conclusions = 1)

\* The moderator decided to continue after round 2 and the debate has since
\* terminated with its conclusion.
DebateOneConclusionAtEndWitness ==
    /\ db_pc = "end"
    /\ Len(db_rounds) = 3
    /\ db_conclusions = 1

\* The ids named by a list of edits.
EditIds(edits) == {edits[i].id : i \in DOMAIN edits}

\* Applying the edits left the number of turns, their order and their
\* sources as they were.
RefineKeepsStructure ==
    /\ Len(rf_result) = Len(rf_scripts)
    /\ \A i \in DOMAIN rf_scripts :
          /\ rf_result[i].id = rf_scripts[i].id
          /\ rf_result[i].sources = rf_scripts[i].sources

\* C10 as stated: the ids of the Refiner's edit set are a subset of the ids it
\* was given, and applying the edits changes neither count nor order.
RefinerEditIdsGiven ==
    /\ rf_pc # "merged" => EditIds(rf_edits) \subseteq GivenIds(rf_scripts)
    /\ rf_pc = "refined" => RefineKeepsStructure

\* C10: the ids of the edits that are applied are a subset of the ids the
\* Refiner was given, an edit naming another id changes nothing, and applying
\* the edits never changes the number of turns or their order.
RefinerAppliedIdsGiven ==
    rf_pc = "refined" =>
        /\ EditIds(rf_applied) \subseteq GivenIds(rf_scripts)
        /\ RefineKeepsStructure
        /\ \A i \in DOMAIN rf_scripts :
              (\A k \in DOMAIN rf_edits :
                    rf_edits[k].id # rf_scripts[i].id \/ rf_edits[k].text = "")
                  => rf_result[i] = rf_scripts[i]

\* The reply named an id that was not given next to one that was; the second
\* edit was applied.
RefinerAppliedIdsGivenWitness ==
    /\ rf_pc = "refined"
    /\ Len(rf_edits) = 2
    /\ rf_edits[1].id \notin GivenIds(rf_scripts)
    /\ rf_edits[1].text # ""
    /\ rf_edits[2].id \in GivenIds(rf_scripts)
    /\ Len(rf_applied) = 1
    /\ rf_result # rf_scripts

\* C11: when the Refiner fails for good (unparsable reply, timeout or error
\* on the last retry) or replies with no edit, the result of the stage is
\* exactly the merged scripts, and refine_transitions never raises.
RefinerFallbackKeepsScripts ==
    /\ rf_pc # "raised"
    /\ rf_outcome # "raised"
    /\ (rf_pc = "refined" /\ (rf_outcome \in RefinerFailures \/ rf_edits = <<>>))
          => rf_result = rf_scripts

\* Every call of the Refiner failed, the last one by a timeout, and the stage
\* ended with the merged scripts it was given.
RefinerFallbackKeepsScriptsWitness ==
    /\ rf_pc = "refined"
    /\ rf_outcome = "timeout"
    /\ rf_attempts = MaxRetries + 1
    /\ rf_scripts # <<>>
    /\ rf_result = rf_scripts

\* C12: the agents of a run execute in the order opening, theme, ticker,
\* closing, one after the other, and each agent starts from the scripts that
\* hold the output of the agent before it.
StagesInOrder ==
    /\ \A k \in 1..(Len(or_ran) - 1) :
          /\ StageIndex(or_ran[k + 1].agent) = StageIndex(or_ran[k].agent) + 1
          /\ or_ran[k + 1].before = or_ran[k].after
    /\ (or_mode.kind = "stage" /\ or_ran # <<>>) => or_ran[1].agent = "opening"
    /\ (or_mode.kind = "stage" /\ or_pc \in {"theme", "ticker", "closing"}) =>
          /\ Len(or_ran) = StageIndex(or_pc) - 1
          /\ Len(or_chapter) = Len(or_ran)
          /\ Len(or_scripts) = or_ran[Len(or_ran)].after
          /\ or_temp[ArtifactOf(or_ran[Len(or_ran)].agent)] = File(or_scripts)

\* A full run ended in which every agent added turns.
StagesInOrderWitness ==
    /\ or_pc = "exited"
    /\ or_exit = 0
    /\ Len(or_ran) = 4
    /\ \A k \in 1..4 : or_ran[k].after > or_ran[k].before

\* C13: in stage mode with cutoff k exactly the agents with index 0..k run,
\* in order, and then cleanup_cache_node runs and the graph ends.
StageCutoffRespected ==
    or_mode.kind = "stage" =>
        /\ Len(or_ran) <= or_mode.stage + 1
        /\ \A k \in DOMAIN or_ran : or_ran[k].agent = STAGES[k]
        /\ or_pc \in {"cleanup", "END", "saved"} => Len(or_ran) = or_mode.stage + 1
        /\ or_pc \in {"END", "saved"} => "node" \in or_cleaned
        /\ (or_pc = "exited" /\ or_error = "none") =>
              /\ Len(or_ran) = or_mode.stage + 1
              /\ "node" \in or_cleaned

\* A run with --stage 1 reached END after the opening and the theme agent.
StageCutoffRespectedWitness ==
    /\ or_mode.kind = "stage"
    /\ or_mode.stage = 1
    /\ or_pc = "END"
    /\ Len(or_ran) = 2
    /\ or_ran[2].agent = "theme"

\* The agent that ran last.
LastRan == or_ran[Len(or_ran)]

\* C14: with no user ticker the ticker pipeline adds no turn and changes no
\* turn of the scripts it was given, and the ticker chapter is -1/-1.
EmptyTickersNoOp ==
    (or_ran # <<>> /\ LastRan.agent = "ticker" /\ or_user_tickers = <<>>) =>
        /\ LastRan.after = LastRan.before
        /\ File(or_scripts) = or_temp["theme"]
        /\ or_chapter[Len(or_chapter)] =
              [name |-> "ticker", start_id |-> -1, end_id |-> -1]

\* The ticker pipeline of a run without user tickers returned, after a theme
\* stage that left turns in the scripts.
EmptyTickersNoOpWitness ==
    /\ or_mode.kind = "stage"
    /\ or_user_tickers = <<>>
    /\ Len(or_ran) = 3
    /\ LastRan.agent = "ticker"
    /\ LastRan.before >= 2
    /\ Len(or_chapter) = 3

\* The number of turns the branches that did not fail returned.
RECURSIVE SurvivingTurns(_)
SurvivingTurns(raw) ==
    IF raw = <<>> THEN 0
    ELSE (IF Head(raw).status = "ok" THEN Len(Head(raw).scripts) ELSE 0)
         + SurvivingTurns(Tail(raw))

\* C15: after the theme stage, run on L opening turns with some workers
\* failing, the scripts hold L turns plus the turns of the surviving
\* workers, the theme turns carry the ids L, L+1, ..., and the theme chapter
\* is [L, length-1] (-1/-1 when no worker left a turn).
ThemeStageLengthAndChapter ==
    (or_ran # <<>> /\ LastRan.agent = "theme") =>
        /\ Len(or_scripts) = LastRan.before + SurvivingTurns(LastRan.branches)
        /\ \A i \in DOMAIN or_scripts :
              /\ or_scripts[i].id = i - 1
              /\ i <= LastRan.before <=> or_scripts[i].text = BaseText
        /\ or_chapter[Len(or_chapter)] =
              IF SurvivingTurns(LastRan.branches) = 0
              THEN [name |-> "theme", start_id |-> -1, end_id |-> -1]
              ELSE [name |-> "theme", start_id |-> LastRan.before,
                    end_id |-> Len(or_scripts) - 1]

\* The theme stage returned on 2 opening turns, with the first theme worker
\* failed and the second one's turns merged.
ThemeStageLengthAndChapterWitness ==
    /\ or_mode.kind = "stage"
    /\ Len(or_ran) = 2
    /\ LastRan.agent = "theme"
    /\ LastRan.before = 2
    /\ Len(LastRan.branches) = 2
    /\ LastRan.branches[1].status = "failed"
    /\ LastRan.branches[2].status = "ok"
    /\ Len(or_scripts) > 2

\* C16: whatever the mode and the outcome of a run, cache/{date} is removed
\* when the process ends; cleanup_cache_node has run in every run whose graph
\* reached END, in every stage mode and every agent mode.
CacheAlwaysCleaned ==
    /\ or_pc = "exited" => or_cache = "absent"
    /\ or_pc \in {"END", "saved"} => ("node" \in or_cleaned /\ or_cache = "absent")
    /\ (or_pc = "exited" /\ or_error = "none") => "node" \in or_cleaned

\* A standalone run ended by an exception after the prefetch had filled the
\* cache: cleanup_cache_node never ran, the cache is gone all the same.
CacheAlwaysCleanedWitness ==
    /\ or_pc = "exited"
    /\ or_mode.kind = "agent"
    /\ or_error = "FileNotFoundError"
    /\ "node" \notin or_cleaned
    /\ or_cache = "absent"
    /\ or_exit = 1

\* A standalone run of a later agent.
StandaloneLater == or_mode.kind = "agent" /\ or_mode.agent # "opening"

\* The run left no output: no agent returned, nothing was saved, and at its
\* end the process reports FileNotFoundError with a non-zero status.
FailedOnMissingFile ==
    /\ or_ran = <<>>
    /\ or_saved = NoFile
    /\ or_pc = "exited" => (or_error = "FileNotFoundError" /\ or_exit # 0)

\* C17 as stated: a standalone theme, ticker or closing run whose
\* predecessor's artifact (opening.json, theme.json, ticker_pipeline.json) is
\* missing fails with FileNotFoundError.
MissingPredecessorFails ==
    (StandaloneLater /\ or_temp[Head(RequiredArtifacts(or_mode.agent))] = NoFile)
        => FailedOnMissingFile

\* C17: a standalone theme or ticker run whose predecessor's artifact is
\* missing, and a standalone closing run that finds neither
\* ticker_pipeline.json nor theme.json, fails with FileNotFoundError and a
\* non-zero exit and produces no output.
MissingBaseFails ==
    (/\ StandaloneLater
     /\ \A k \in DOMAIN RequiredArtifacts(or_mode.agent) :
           or_temp[RequiredArtifacts(or_mode.agent)[k]] = NoFile)
        => FailedOnMissingFile

\* --agent closing ended with FileNotFoundError: neither ticker_pipeline.json
\* nor theme.json was there.
MissingBaseFailsWitness ==
    /\ or_mode.kind = "agent"
    /\ or_mode.agent = "closing"
    /\ or_temp["ticker_pipeline"] = NoFile
    /\ or_temp["theme"] = NoFile
    /\ or_pc = "exited"
    /\ or_error = "FileNotFoundError"
    /\ or_exit = 1

\* The payload is a valid script.json: the ids of its turns are dense and
\* every chapter is -1/-1 or a range of its turns.
ValidPayload(payload) ==
    /\ payload.date = Date
    /\ \A i \in DOMAIN payload.scripts : payload.scripts[i].id = i - 1
    /\ \A k \in DOMAIN payload.chapter :
          \/ payload.chapter[k].start_id = -1 /\ payload.chapter[k].end_id = -1
          \/ /\ 0 <= payload.chapter[k].start_id
             /\ payload.chapter[k].start_id <= payload.chapter[k].end_id
             /\ payload.chapter[k].end_id < Len(payload.scripts)

\* C18: a run that completes has written a valid script.json with exactly
\* the fields date, nutshell, user_tickers, chapter and scripts; a run ended
\* by a fatal failure has written none and ends with a non-zero status.
CompletedRunPersistsArtifact ==
    or_pc = "exited" =>
        /\ or_exit = 0 <=> or_error = "none"
        /\ or_exit = 0 =>
              /\ or_saved # NoFile
              /\ DOMAIN or_saved[1] =
                    {"date", "nutshell", "user_tickers", "chapter", "scripts"}
              /\ ValidPayload(or_saved[1])
              /\ or_saved[1].scripts = or_scripts
        /\ or_exit # 0 => or_saved = NoFile

\* A run completed and saved its script although a theme worker had failed.
CompletedRunPersistsArtifactWitness ==
    /\ or_pc = "exited"
    /\ or_exit = 0
    /\ or_mode.kind = "stage"
    /\ or_mode.stage >= 1
    /\ Len(or_ran[2].branches) >= 1
    /\ or_ran[2].branches[1].status = "failed"
    /\ or_saved # NoFile

\* The stages that fan out into branches.
FanOutStages == {"theme", "ticker"}

UsableRows == IF oh_download.columns_ok THEN oh_download.row_count ELSE 0

\* C20: get_ohlcv returns rows only when their number is at most the cap of
\* 200, and then all of them; above the cap it returns no rows and sets
\* too_many_rows.
OhlcvRowCap ==
    oh_pc = "returned" =>
        /\ Len(oh_response.rows) <= 200
        /\ UsableRows > 200 =>
              (oh_response.rows = <<>> /\ oh_response.too_many_rows)
        /\ UsableRows <= 200 =>
              (Len(oh_response.rows) = UsableRows /\ ~oh_response.too_many_rows)

\* A download of exactly 200 rows was returned in full.
OhlcvRowCapWitness ==
    /\ oh_pc = "returned"
    /\ oh_download.row_count = 200
    /\ oh_download.columns_ok
    /\ Len(oh_response.rows) = 200

\* C21: under any sequence of increment, decrement and reset the playback
\* rate stays within 0.25x .. 2.00x on the grid of 0.05x; an increment or a
\* decrement moves it by one step of 0.05x, or leaves it at the end of the
\* range, and a reset sets it to 1.00x.
PlaybackRateInRange ==
    /\ pl_rate >= 250
    /\ pl_rate <= 2000
    /\ pl_rate % 50 = 0
    /\ pl_control = "increment" =>
          pl_rate = (IF pl_rate_before = 2000 THEN 2000 ELSE pl_rate_before + 50)
    /\ pl_control = "decrement" =>
          pl_rate = (IF pl_rate_before = 250 THEN 250 ELSE pl_rate_before - 50)
    /\ pl_control = "reset" => pl_rate = 1000

\* The increment handler ran at 2.00x and the rate stayed at 2.00x.
PlaybackRateInRangeWitness ==
    /\ pl_control = "increment"
    /\ pl_rate_before = 2000
    /\ pl_rate = 2000

\* C22: right after a click on a script turn the audio position is that
\* turn's start time (time[0] / 1000 seconds), whatever the position was
\* before the click.
TurnClickSeeksToStart ==
    pl_clicked # 0 => pl_audio_time = pl_scripts[pl_clicked].time

ExpertFailedIn(n) ==
    \E r \in Roles : db_rounds[n].judgments[r] = EmptyJudgment

DebateTranscriptAppendOnly ==
    [][/\ Len(db_rounds') \in {Len(db_rounds), Len(db_rounds) + 1}
       /\ \A n \in DOMAIN db_rounds : db_rounds'[n] = db_rounds[n]
       /\ \A n \in DOMAIN db_rounds' : db_rounds'[n].round = n]_vars

\* A third round was appended behind two completed rounds that differ.
DebateTranscriptAppendOnlyWitness ==
    /\ Len(db_rounds) = 3
    /\ db_rounds[3].round = 3
    /\ db_rounds[1].judgments # db_rounds[2].judgments
    /\ db_pc = "end"

\* C27: every source of an expert's judgment after extraction has the
\* canonical identity of a member of the debate's allowed sources, a cited
\* source with no such member is not among them, and no cited source that
\* has one is lost.
ExtractedSourcesAllowed ==
    ex_pc = "extracted" =>
        /\ \A k \in DOMAIN ex_sources :
              \E a \in ex_allowed :
                  canonical_source(a) = canonical_source(ex_sources[k])
        /\ \A i \in DOMAIN ex_cited :
              (\E a \in ex_allowed :
                    canonical_source(a) = canonical_source(ex_cited[i]))
                <=> (\E k \in DOMAIN ex_sources :
                       canonical_source(ex_sources[k]) = canonical_source(ex_cited[i]))
        /\ Len(ex_sources) <= Len(ex_cited)

\* The expert cited a source that was never offered and an offered one with
\* a reworded title: the first was dropped, the second recorded.
ExtractedSourcesAllowedWitness ==
    /\ ex_pc = "extracted"
    /\ ex_cited = <<DebateSource("article", "id#9", "t9"),
                    DebateSource("article", "id#1", "reworded")>>
    /\ DebateSource("article", "id#1", "t1") \in ex_allowed
    /\ Len(ex_sources) = 1
    /\ canonical_source(ex_sources[1]) = [type |-> "article", key |-> "id#1"]

\* The agent whose worker wrote a turn, told by the text that marks it.
StageOfTurn(turn) ==
    CASE turn.text = BaseText -> "opening"
      [] turn.text = ClosingText -> "closing"
      [] \E i \in DOMAIN TickerTexts : TickerTexts[i] = turn.text -> "ticker"
      [] OTHER -> "theme"

\* The scripts as they were when the k-th agent of the run returned: the
\* temp/ artifact it wrote.
ScriptsAfter(k) == or_temp[ArtifactOf(or_ran[k].agent)][1]

NonEmptyChapters(payload) ==
    SelectSeq(payload.chapter, LAMBDA c : c.start_id # -1 \/ c.end_id # -1)

EditsNaming(id) ==
    SelectSeq(rf_applied, LAMBDA e : e.id = id)

\* C30: applying the Refiner's edits leaves the id and the sources of every
\* turn as they were and leaves every turn that no edit names untouched; a
\* turn an applied edit names gets speaker and text of the last such edit and
\* nothing else.
RefinerOnlySpeakerAndText ==
    rf_pc = "refined" =>
        /\ DOMAIN rf_result = DOMAIN rf_scripts
        /\ \A i \in DOMAIN rf_scripts :
              /\ DOMAIN rf_result[i] = {"id", "speaker", "text", "sources"}
              /\ rf_result[i].id = rf_scripts[i].id
              /\ rf_result[i].sources = rf_scripts[i].sources
              /\ rf_scripts[i].id \notin EditIds(rf_edits) =>
                    rf_result[i] = rf_scripts[i]
              /\ EditsNaming(rf_scripts[i].id) # <<>> =>
                    /\ rf_result[i].speaker =
                          EditsNaming(rf_scripts[i].id)[Len(EditsNaming(rf_scripts[i].id))].speaker
                    /\ rf_result[i].text =
                          EditsNaming(rf_scripts[i].id)[Len(EditsNaming(rf_scripts[i].id))].text

\* Of three turns the second was rewritten by an edit, speaker and text; it
\* kept its sources, and the first and third turn are as they were.
RefinerOnlySpeakerAndTextWitness ==
    /\ rf_pc = "refined"
    /\ Len(rf_scripts) = 3
    /\ rf_applied = <<[id |-> 1, speaker |-> "host", text |-> "x"]>>
    /\ rf_result[2].speaker = "host"
    /\ rf_result[2].speaker # rf_scripts[2].speaker
    /\ rf_result[2].text = "x"
    /\ rf_result[2].sources = <<GoodArticle>>
    /\ rf_result[1] = rf_scripts[1]
    /\ rf_result[3] = rf_scripts[3]

\* The ids of the merged sequence, read from the turns themselves.
MergedIds == {rf_scripts[i].id : i \in DOMAIN rf_scripts}

\* The edits of the reply whose id is no id of the merged sequence.
ForeignEdits == SelectSeq(rf_edits, LAMBDA e : e.id \notin MergedIds)

\* C31: an edit of the Refiner whose id is no id of the merged sequence is not
\* applied: it is none of the applied edits, the result is what the reply
\* without that edit gives, a reply of such edits only leaves the sequence as
\* it was, and the stage does not fail over it.
ForeignEditIgnored ==
    /\ rf_pc # "raised"
    /\ rf_pc = "refined" /\ rf_outcome = "edits" =>
          /\ \A k \in DOMAIN rf_applied : rf_applied[k].id \in MergedIds
          /\ Len(rf_applied) <= Len(rf_edits) - Len(ForeignEdits)
          /\ rf_result =
                ApplyEdits(rf_scripts,
                    SelectSeq(rf_edits,
                        LAMBDA e : e.id \in MergedIds /\ e.text # ""))
          /\ Len(ForeignEdits) = Len(rf_edits) => rf_result = rf_scripts

\* The reply held two edits with a text, one for an id below and one for an
\* id above the ids of a sequence of two turns; neither was applied and the
\* stage ended with the sequence it was given.
ForeignEditIgnoredWitness ==
    /\ rf_pc = "refined"
    /\ rf_outcome = "edits"
    /\ Len(rf_scripts) = 2
    /\ Len(rf_edits) = 2
    /\ rf_edits[1].id = -1
    /\ rf_edits[2].id = 2
    /\ rf_edits[1].text = "x"
    /\ rf_edits[2].text = "x"
    /\ rf_applied = <<>>
    /\ rf_result = rf_scripts

ScriptsWrittenOnlyAtFanIn ==
    [][ /\ fo_base' = fo_base
        /\ fo_raw' # fo_raw => fo_scripts' = fo_scripts /\ fo_results' = fo_results
        /\ fo_scripts' # fo_scripts =>
              /\ fo_pc = "collected"
              /\ fo_pc' = "merged"
              /\ \A i \in 1..fo_n : fo_raw[i].status # "pending"
              /\ fo_raw' = fo_raw
              /\ fo_scripts' = merge_scripts(fo_base, fo_results)
        /\ fo_pc = "merged" => fo_scripts' = fo_scripts ]_vars

\* Two branches ran over a base of one turn and ended in the opposite order
\* of their submission; the scripts were written once, by the merge.
ScriptsWrittenOnlyAtFanInWitness ==
    /\ fo_pc = "merged"
    /\ fo_n = 2
    /\ fo_order = <<2, 1>>
    /\ fo_raw[1].status = "ok"
    /\ fo_raw[2].status = "ok"
    /\ Len(fo_base) = 1
    /\ Len(fo_scripts) > Len(fo_base)

AnswerUnparsable ==
    \/ sw_content.fence.kind = "text"
    \/ sw_content.fence.kind = "none" /\ sw_content.whole.kind = "text"

\* C35: a stage worker whose final answer parses neither as a fenced JSON
\* block nor as a whole returns the empty result, and no parse error ever
\* leaves the worker's graph.
UnparsableAnswerGivesEmptyResult ==
    /\ sw_error # "JSONDecodeError"
    /\ sw_pc = "END" /\ AnswerUnparsable => sw_result = EmptyWorkerResult

\* After one round of tool calls the model answered with plain text; the
\* worker returned the empty result.
UnparsableAnswerGivesEmptyResultWitness ==
    /\ sw_pc = "END"
    /\ sw_calls = 2
    /\ sw_tool_outputs # <<>>
    /\ sw_content = [fence |-> NoFence, whole |-> NotJson]
    /\ sw_result = EmptyWorkerResult
    /\ sw_error = "none"

\* C36: an error of a tool inside the loop of a stage worker never ends the
\* worker: the error goes back to the model as a tool output and the loop
\* goes on.
ToolErrorNeverAborts ==
    /\ sw_error # "tool"
    /\ sw_pc = "raised" => sw_error = "FileNotFoundError"

\* The positions of the turns that have started at the player's time.
StartedTurns == {i \in DOMAIN pl_scripts : pl_scripts[i].time <= pl_current_time}

\* The positions of the turns the script viewer highlights.
ActiveTurns == {i \in DOMAIN pl_scripts : isActive(pl_scripts[i])}

BeforeFirstTurnWitness ==
    /\ pl_is_playing
    /\ StartedTurns = {}
    /\ ActiveTurns = {1}

\* isPlaying follows the audio element as long as the audio can be played.
IsPlayingMatchesPlayableAudio ==
    pl_audio_ok => (pl_is_playing <=> ~pl_audio_paused)

\* C38: after any sequence of play/pause toggles and ended events, isPlaying
\* is true exactly when the audio element is playing.
IsPlayingMatchesAudio == pl_is_playing <=> ~pl_audio_paused

\* A click on a slide was the last step.
SlideClicked == pl_slide_clicked' # NoSlide

\* C39: while a slide is locked, the progress of the playback scrolls no
\* slide into view and a click on a slide moves neither the player's time
\* nor the audio; scrolling comes back in the step that takes the lock off.
LockedSlideshowStaysPut ==
    [][/\ pl_locked # NoLock /\ pl_locked' # NoLock => pl_scrolled' = pl_scrolled
       /\ pl_locked # NoLock /\ SlideClicked =>
             /\ pl_current_time' = pl_current_time
             /\ pl_audio_time' = pl_audio_time
       /\ pl_locked # NoLock /\ pl_locked' = NoLock =>
             pl_scrolled' = SlideAt(pl_current_time)]_vars

\* With the first slide locked the audio played into the second slide, the
\* first slide is still the one in view, and a click on the first slide did
\* not take the player back.
LockedSlideshowStaysPutWitness ==
    /\ pl_locked = 0
    /\ pl_slide_clicked = 0
    /\ SlideAt(pl_current_time) = 1
    /\ pl_scrolled = 0
    /\ ~pl_audio_paused

=============================================================================
